---- MODULE Spec2Model ----
(***************************************************************************)
(* A model of my_slow_query_scraper.                                       *)
(*                                                                         *)
(*  - the realtime slow-query monitor (collectors/my_process_scraper.py):  *)
(*    the sampling loop of a SlowQueryMonitor, its pid_time_cache and the  *)
(*    finalization writes into the realtime collection;                    *)
(*  - the monitor API (apis/slow_query_monitor_api.py): start_monitoring,  *)
(*    stop_monitoring, get_monitor_status and the run_all_monitors task;   *)
(*  - the CloudWatch collector                                             *)
(*    (collectors/cloudwatch_slowquery_collector.py): the paged, batched   *)
(*    stream fetch and the upsert of the digest documents.                 *)
(*                                                                         *)
(* Every coroutine is cut at its await points: one action is the code that *)
(* runs between two awaits, which asyncio runs without interleaving.       *)
(***************************************************************************)
EXTENDS Integers, Sequences, FiniteSets, Bags, TLC

\* ------------------------------------------------------------------------
\* Bounds of the model
\* ------------------------------------------------------------------------
\* The wall clock (seconds) runs from 0 to MaxClock; at MaxClock the process
\* tables show no rows any more, so that every tracked query gets finalized.
MaxClock == 3
\* Calls of stop() a caller makes on one monitor.
MaxStopCalls == 2
\* Log streams describe_log_streams returns at most (the code asks for 50).
NumStreams == 3
\* The parameters of _get_slow_query_logs, scaled down (defaults 10000 and 5):
\* the per-stream cap, which is also the page size limit, and the number of
\* streams fetched concurrently.
batch_size == 2
max_concurrent_streams == 2
\* Calls of _save_metrics for one date with one aggregate.
MaxRuns == 2
\* The date of these calls, as a day number.
TargetDate == 1
\* Days of the range collect_metrics_by_range saves.
total_days == 2
\* Events handed to one call of _analyze_slow_queries.
MaxLogs == 3
\* Pieces a text handed to _clean_query is put together from.
MaxFragments == 4
\* Iterations of the block-comment loop of _clean_query that are followed.
MaxStrips == 3
\* Calls of progress_callback in one batch collection run.
MaxProgress == 2
\* Calls of calculate_monthly_statistics.
MaxCalcs == 2
\* Events folded into one digest by one call of _analyze_slow_queries.
MaxFolds == 12
\* Clients MongoDBConnector constructs.
MaxClients == 3
\* Length of the query strings handed to _normalize_query.
MaxLen == 5

\* ------------------------------------------------------------------------
\* Program constants
\* ------------------------------------------------------------------------
EXEC_TIME == 2
MONITORING_INTERVAL == 1

\* ------------------------------------------------------------------------
\* Values
\* ------------------------------------------------------------------------
Instances == {"db1", "db2"}
Tasks == 1..2
\* The SlowQueryMonitor that task t created for instance i.
MonitorIds == Tasks \X Instances
InstanceOf(m) == m[2]
TaskOf(m) == m[1]

\* TIME of a processlist row is a nullable bigint: NullTime stands for NULL,
\* the value on which float(row['TIME']) raises TypeError.
NullTime == -1
float_ok(t) == t # NullTime

Max(a, b) == IF a >= b THEN a ELSE b
Min2(a, b) == IF a <= b THEN a ELSE b

RECURSIVE SeqMax(_)
SeqMax(s) == IF s = <<>> THEN 0 ELSE Max(Head(s), SeqMax(Tail(s)))

\* The results the processlist query can return: any set of rows with
\* pairwise distinct ID (ID is the connection id).
Snapshots(P, D, T) ==
    UNION { { { [ID |-> p, DB |-> f[p][1], TIME |-> f[p][2]] : p \in S }
              : f \in [S -> D \X T] }
            : S \in SUBSET P }

NoDoc == [pid |-> 0, instance |-> "", db |-> "", start |-> 0, time |-> 0, end |-> 0]

\* ------------------------------------------------------------------------
\* State
\* ------------------------------------------------------------------------
VARIABLES
    now,             \* wall clock, in whole seconds (datetime.now(pytz.utc))
    mongo_client,    \* MongoDBConnector._client is set (connected)
    collection,      \* the realtime slow-query collection: a bag of documents
    pc,              \* per monitor: where its run_mysql_slow_queries coroutine is
    stop_event,      \* per monitor: SlowQueryMonitor._stop_event
    pid_time_cache,  \* per monitor: pid -> [max_time, start, details]
    todo,            \* per monitor: cached pids of this cycle still to finalize
    data_to_insert,  \* per monitor: the document of the finalization in flight
    wake,            \* per monitor: when its asyncio.sleep may return
    \* history variables (not read by the program)
    track,           \* per monitor and pid: "none" | "clean" | "other"
    streak,          \* per monitor and pid: elapsed values of the clean streak
    expect,          \* per monitor and pid: peak a finalization of this cycle must carry
    emitted,         \* per monitor: records emitted in the current cycle
    last_query,      \* per monitor: outcome of its last processlist query
    finalized,       \* natural keys whose finalization completed
    dedup_hit,       \* some pre-check found the document already stored
    stop_calls,      \* per monitor: calls of stop() so far
    stop_at,         \* per monitor: where the loop was at the first stop()
    \* the monitor API (apis/slow_query_monitor_api.py)
    monitor_running, \* the global flag
    monitoring_task, \* the global task: 0 (None) or the task created last
    api_monitors,    \* the global list monitors: the monitors it holds
    task_pc,         \* per task: where its run_all_monitors coroutine is
    cancel_req,      \* per task: cancel() was called, CancelledError not yet raised
    stop_pc,         \* the tasks a stop_monitoring handler awaits
    pending,         \* per task: instances initialize_monitors still has to visit
    built,           \* per task: instances whose monitor was appended
    \* history variables of the monitor API
    loaded,          \* per task: the instances the loader returned
    init_result,     \* per task and instance: "none" | "ok" | "failed"
    interrupted_at,  \* per monitor: where CancelledError reached its loop
    status_reply,    \* last answer of get_monitor_status, with the tasks' state then
    answered,        \* tasks for which stop_monitoring has returned
    \* _get_slow_query_logs (collectors/cloudwatch_slowquery_collector.py)
    fetch_pc,        \* "idle" | "describe" | "gather" | "done"
    log_streams,     \* the streams describe_log_streams returned, in its order
    batch_start,     \* index in log_streams of the first stream of the batch
    stream_pc,       \* per stream: "idle" | "request" | "done" (process_stream)
    stream_events,   \* per stream: the list its process_stream accumulates
    next_token,      \* per stream: next_token of process_stream (0 is None)
    all_events,      \* the list the batches extend
    fetch_result,    \* the list returned
    \* history variables of the fetch
    delivered,       \* per stream: the events the service handed out, in order
    failed,          \* per stream: a get_log_events call of the stream raised
    completion,      \* streams of the current batch in the order they completed
    \* _save_metrics
    instances_data,  \* the aggregate to save: instance -> list of query_data
    digest_collection, \* the digest collection: a bag of documents
    save_pc,         \* "idle" | "get_database" | "update_one" | "done"
    save_run,        \* number of the _save_metrics call (its created_at)
    save_todo,       \* (instance_id, query_data) pairs the loops still visit
    acked,           \* keys whose update_one returned in the current call
    overwritten,     \* keys whose update_one of the current call found a document
    current_date,    \* the date being saved, a day number
    range_pc,        \* collect_metrics_by_range: "idle" | "loop" | "save" | "returned" | "cancelled"
    skipped,         \* keys whose update_one raised
    save_raised,     \* dates whose _save_metrics raised
    \* _normalize_query
    norm_pc,         \* "idle" | "input" | "once" | "twice" | "folded"
    query,           \* the query string, a sequence of characters
    other_query,     \* a second query string
    normalized,      \* _normalize_query(query)
    renormalized,    \* _normalize_query(normalized)
    other_normalized, \* _normalize_query(other_query)
    folded,          \* _analyze_slow_queries of one event per query string
    \* _analyze_slow_queries
    agg_pc,          \* "idle" | "input" | "done"
    logs,            \* the events handed to _analyze_slow_queries
    results,         \* the list it returned
    \* SQLStatisticsCalculator._clean_query and the four predicates
    sql_pc,          \* "idle" | "blocks" | "done"
    sql_raw,         \* the text handed to the predicates
    sql_query,       \* the local variable query of _clean_query
    sql_strips,      \* iterations of the block-comment loop so far
    sql_class,       \* the four predicates' answers once cleaning returned
    \* WebSocketManager and the batch collection run of slow_query_cw_run_api
    connections,     \* _connections[collection_id] (no key when empty)
    collection_status, \* _collection_status[collection_id], NoStatus when no key
    ws_state,        \* per websocket: "new" | "open" | "broken" | "closed"
    received,        \* per websocket: the messages sent to it
    on_connect,      \* per websocket: what connect sent, and what was latest then
    run_pc,          \* position of run_last_month_collection / run_collection
    progress_count,  \* calls of progress_callback so far
    bc,              \* the _broadcast in progress
    published,       \* the statuses handed to update_status, in order
    status_dropped,  \* the recorded status was discarded since the last update
    unheard,         \* the last update_status found no connection
    \* SQLStatisticsCalculator.calculate_monthly_statistics
    source_collection, \* the digest documents
    stats_collection,  \* the monthly statistics rows
    calc_pc,         \* "idle" | "aggregate" | "delete_many" | "insert_many" | "returned" | "raised"
    year_month,      \* the month of the current call
    calc_results,    \* the rows the current call computed
    calc_run,        \* calls so far (the created_at of the rows)
    \* the loop of _analyze_slow_queries, event by event
    example_pc,      \* "idle" | "folding" | "done"
    stats_by_digest, \* the dict query_stats, in insertion order
    seen_bodies,     \* history: the trimmed bodies of the events folded so far
    example_results, \* the list returned
    \* MongoDBConnector, shared by every unit of the process, and one monitor
    client_id,       \* MongoDBConnector._client: 0 (None) or the number of the client
    clients_made,    \* AsyncIOMotorClient objects constructed so far
    closed_clients,  \* the clients close() was called on
    bound_client,    \* the client the monitor's self.collection belongs to
    shared_pc,       \* the monitor's handle_finished_queries: "sleep" | "write"
    written_through, \* history: the handles find_one / insert_one were issued through
    \* overlapping calls of calculate_monthly_statistics
    calls            \* per call: where it is, its year_month and its results

monVars == <<now, mongo_client, collection, pc, stop_event, pid_time_cache, todo,
             data_to_insert, wake>>
histVars == <<track, streak, expect, emitted, last_query, finalized, dedup_hit,
              stop_calls, stop_at>>
apiVars == <<monitor_running, monitoring_task, api_monitors, task_pc, cancel_req,
             stop_pc, pending, built, loaded, init_result, interrupted_at,
             status_reply, answered>>
fetchVars == <<fetch_pc, log_streams, batch_start, stream_pc, stream_events, next_token,
               all_events, fetch_result, delivered, failed, completion>>
saveVars == <<instances_data, digest_collection, save_pc, save_run, save_todo, acked,
              overwritten, current_date, range_pc, skipped, save_raised>>
normVars == <<norm_pc, query, other_query, normalized, renormalized, other_normalized,
              folded>>
aggVars == <<agg_pc, logs, results>>
sqlVars == <<sql_pc, sql_raw, sql_query, sql_strips, sql_class>>
wsVars == <<connections, collection_status, ws_state, received, on_connect, run_pc,
            progress_count, bc, published, status_dropped, unheard>>
statVars == <<source_collection, stats_collection, calc_pc, year_month, calc_results,
              calc_run>>
exampleVars == <<example_pc, stats_by_digest, seen_bodies, example_results>>
sharedVars == <<client_id, clients_made, closed_clients, bound_client, shared_pc,
                written_through>>
overlapVars == <<calls>>
laterVars == <<sharedVars, overlapVars>>
restVars == <<normVars, aggVars, sqlVars, wsVars, statVars, exampleVars, laterVars>>
cwVars == <<fetchVars, saveVars, restVars>>
baseVars == <<monVars, histVars, apiVars, fetchVars, saveVars>>
exceptNorm == <<baseVars, aggVars, sqlVars, wsVars, statVars, exampleVars, laterVars>>
exceptAgg == <<baseVars, normVars, sqlVars, wsVars, statVars, exampleVars, laterVars>>
exceptSql == <<baseVars, normVars, aggVars, wsVars, statVars, exampleVars, laterVars>>
exceptStat == <<baseVars, normVars, aggVars, sqlVars, wsVars, exampleVars, laterVars>>
exceptExample == <<baseVars, normVars, aggVars, sqlVars, wsVars, statVars, laterVars>>
exceptShared == <<baseVars, normVars, aggVars, sqlVars, wsVars, statVars, exampleVars,
                 overlapVars>>
exceptOverlap == <<baseVars, normVars, aggVars, sqlVars, wsVars, exampleVars, sharedVars>>
monRest == <<now, collection, pc, stop_event, pid_time_cache, todo, data_to_insert, wake>>
exceptWs == <<monRest, histVars, apiVars, fetchVars, saveVars, normVars, aggVars, sqlVars,
              statVars, exampleVars, laterVars>>
otherVars == <<apiVars, cwVars>>
vars == <<monVars, histVars, otherVars>>

\* ------------------------------------------------------------------------
\* SlowQueryMonitor: the tracker
\* ------------------------------------------------------------------------
\* datetime.fromtimestamp(int((utc_now - timedelta(seconds=EXEC_TIME)).timestamp()))
StartEstimate(tnow) == tnow - EXEC_TIME

\* process_query_result on one cached entry (or none): the running maximum,
\* the start written once, the details replaced.
UpdateEntry_Overwrite(c, row, tnow) ==
    LET pid == row.ID
        start == IF pid \in DOMAIN c THEN c[pid].start ELSE StartEstimate(tnow)
    IN  [max_time |-> row.TIME,
         start |-> start,
         details |-> [db |-> row.DB, time |-> row.TIME, start |-> start]]

UpdateEntry_Restart(c, row, tnow) ==
    LET pid == row.ID
        old_max == IF pid \in DOMAIN c THEN c[pid].max_time ELSE 0
        start == StartEstimate(tnow)
    IN  [max_time |-> Max(old_max, row.TIME),
         start |-> start,
         details |-> [db |-> row.DB, time |-> row.TIME, start |-> start]]

UpdateEntry(c, row, tnow) ==
    LET pid == row.ID
        old_max == IF pid \in DOMAIN c THEN c[pid].max_time ELSE 0
        start == IF pid \in DOMAIN c THEN c[pid].start ELSE StartEstimate(tnow)
    IN  [max_time |-> Max(old_max, row.TIME),
         start |-> start,
         details |-> [db |-> row.DB, time |-> row.TIME, start |-> start]]

process_query_result(c, row, tnow) ==
    IF row.TIME >= EXEC_TIME
    THEN (row.ID :> UpdateEntry(c, row, tnow)) @@ c
    ELSE c

\* The loop of query_mysql_instance over the rows (ORDER BY TIME DESC): a row
\* whose TIME float() rejects is logged and not processed.
RECURSIVE FoldRows(_, _, _)
FoldRows(c, rows, tnow) ==
    IF rows = {} THEN c
    ELSE LET r == CHOOSE r \in rows : \A q \in rows : q.TIME <= r.TIME
         IN  FoldRows(IF float_ok(r.TIME) THEN process_query_result(c, r, tnow) ELSE c,
                      rows \ {r}, tnow)

\* current_pids: process_query_result adds the pid of every row it is called for.
CurrentPids(rows) == { r.ID : r \in { q \in rows : float_ok(q.TIME) } }

\* vars(cache_data['details']) with time and end overwritten.
DataToInsert(m, pid, entry, tnow) ==
    [pid |-> pid, instance |-> InstanceOf(m), db |-> entry.details.db,
     start |-> entry.details.start, time |-> entry.max_time, end |-> tnow]

NaturalKey(d) == [pid |-> d.pid, instance |-> d.instance, db |-> d.db, start |-> d.start]

\* collection.find_one({'pid', 'instance', 'db', 'start'}) finds a document.
existing_query_PidOnly(coll, d) ==
    \E e \in BagToSet(coll) : e.pid = d.pid /\ e.instance = d.instance

existing_query(coll, d) ==
    \E e \in BagToSet(coll) : NaturalKey(e) = NaturalKey(d)

insert_one(coll, d) == coll (+) SetToBag({d})

\* The body of the for loop of handle_finished_queries up to its first await:
\* take the next cached pid that is not in current_pids, build its document and
\* issue the pre-check; with none left, return to the loop, which sleeps.
NextFinalization_Background(m, c, rest, em) ==
    /\ pc' = [pc EXCEPT ![m] = "sleep"]
    /\ wake' = [wake EXCEPT ![m] = now + MONITORING_INTERVAL]
    /\ todo' = [todo EXCEPT ![m] = rest]
    /\ data_to_insert' = [data_to_insert EXCEPT ![m] = NoDoc]
    /\ emitted' = [emitted EXCEPT ![m] = em]

NextFinalization(m, c, rest, em) ==
    IF rest = {}
    THEN /\ pc' = [pc EXCEPT ![m] = "sleep"]
         /\ wake' = [wake EXCEPT ![m] = now + MONITORING_INTERVAL]
         /\ todo' = [todo EXCEPT ![m] = {}]
         /\ data_to_insert' = [data_to_insert EXCEPT ![m] = NoDoc]
         /\ emitted' = [emitted EXCEPT ![m] = em]
    ELSE \E pid \in rest :
         LET d == DataToInsert(m, pid, c[pid], now) IN
         /\ pc' = [pc EXCEPT ![m] = "find_one"]
         /\ wake' = wake
         /\ todo' = [todo EXCEPT ![m] = rest \ {pid}]
         /\ data_to_insert' = [data_to_insert EXCEPT ![m] = d]
         /\ emitted' = [emitted EXCEPT ![m] = Append(em, d)]

RemoveKey(c, pid) == [q \in DOMAIN c \ {pid} |-> c[q]]

\* History: how one pid's observation in a successful cycle moves its track.
IsSlow(rows, pid) == \E r \in rows : r.ID = pid /\ float_ok(r.TIME) /\ r.TIME >= EXEC_TIME
IsAbsent(rows, pid) == \A r \in rows : r.ID # pid
TimeOf(rows, pid) == (CHOOSE r \in rows : r.ID = pid).TIME

TrackAfter(tr, rows, pid) ==
    IF IsSlow(rows, pid) THEN (IF tr = "none" THEN "clean" ELSE tr)
    ELSE IF IsAbsent(rows, pid) THEN (IF tr = "clean" THEN "none" ELSE tr)
    ELSE (IF tr = "clean" THEN "other" ELSE tr)

\* The elapsed values of the streak: it starts with the first slow observation
\* of an untracked pid, grows with every further slow one and is kept, for
\* reference, through the cycle in which the pid is absent.
StreakAfter(tr, st, rows, pid) ==
    IF IsSlow(rows, pid) /\ tr = "none" THEN <<TimeOf(rows, pid)>>
    ELSE IF IsSlow(rows, pid) /\ tr = "clean" THEN Append(st, TimeOf(rows, pid))
    ELSE IF IsAbsent(rows, pid) /\ tr = "clean" THEN st
    ELSE <<>>

\* What this cycle must emit for the pid: the peak of the clean streak that
\* just ended (> 0), nothing (0), or no statement on the value (the entry was
\* touched by a row below the threshold, a row with NULL TIME or a persistence
\* error): -2 when the pid is absent from the rows, -1 when it is not.
ExpectAfter(tr, st, rows, pid) ==
    IF IsAbsent(rows, pid) /\ tr = "clean" THEN SeqMax(st)
    ELSE IF tr = "none" THEN 0
    ELSE IF IsSlow(rows, pid) /\ tr = "clean" THEN 0
    ELSE IF IsAbsent(rows, pid) THEN -2
    ELSE -1

\* run_mysql_slow_queries: the while condition, evaluated when the coroutine
\* starts and after every sleep.
LoopTop(m) ==
    /\ pc' = [pc EXCEPT ![m] = IF stop_event[m] THEN "stopped" ELSE "query"]
    /\ UNCHANGED <<now, mongo_client, collection, stop_event, pid_time_cache, todo,
                   data_to_insert, wake, histVars>>
    /\ UNCHANGED otherVars

LoopEnter(m) ==
    /\ pc[m] = "launched"
    /\ LoopTop(m)

SleepDone(m) ==
    /\ pc[m] = "sleep"
    /\ now >= wake[m] \/ now = MaxClock
    /\ LoopTop(m)

\* query_mysql_instance, execute_query raised: logged, nothing else happens.
QueryFailed_Fatal(m) ==
    /\ pc[m] = "query"
    /\ pc' = [pc EXCEPT ![m] = "stopped"]
    /\ last_query' = [last_query EXCEPT ![m] = "failed"]
    /\ UNCHANGED <<now, mongo_client, collection, stop_event, pid_time_cache, todo,
                   data_to_insert, wake, track, streak, expect, emitted, finalized,
                   dedup_hit, stop_calls, stop_at>>
    /\ UNCHANGED otherVars

\* The failed query is taken for a query that returned no row.
QueryFailed_AsEmpty(m) ==
    /\ pc[m] = "query"
    /\ last_query' = [last_query EXCEPT ![m] = "failed"]
    /\ NextFinalization(m, pid_time_cache[m], DOMAIN pid_time_cache[m], <<>>)
    /\ UNCHANGED <<now, mongo_client, collection, stop_event, pid_time_cache, track,
                   streak, expect, finalized, dedup_hit, stop_calls, stop_at>>
    /\ UNCHANGED otherVars

QueryFailed(m) ==
    /\ pc[m] = "query"
    /\ pc' = [pc EXCEPT ![m] = "sleep"]
    /\ wake' = [wake EXCEPT ![m] = now + MONITORING_INTERVAL]
    /\ last_query' = [last_query EXCEPT ![m] = "failed"]
    /\ UNCHANGED <<now, mongo_client, collection, stop_event, pid_time_cache, todo,
                   data_to_insert, track, streak, expect, emitted, finalized, dedup_hit,
                   stop_calls, stop_at>>
    /\ UNCHANGED otherVars

\* query_mysql_instance, execute_query returned rows: the rows are folded into
\* the cache and handle_finished_queries runs up to its first await. Without a
\* MongoDB client it connects first; if that fails the error is logged and
\* nothing is finalized in this cycle.
QueryDone(m, Snaps) ==
    /\ pc[m] = "query"
    /\ \E rows \in (IF now < MaxClock THEN Snaps ELSE {{}}) :
       \E connected \in (IF mongo_client THEN {TRUE} ELSE BOOLEAN) :
        LET c == FoldRows(pid_time_cache[m], rows, now)
            rest == IF connected THEN DOMAIN c \ CurrentPids(rows) ELSE {}
            P == DOMAIN track[m]
        IN  /\ mongo_client' = connected
            /\ pid_time_cache' = [pid_time_cache EXCEPT ![m] = c]
            /\ track' = [track EXCEPT ![m] =
                            [p \in P |-> IF connected THEN TrackAfter(track[m][p], rows, p)
                                         ELSE "other"]]
            /\ streak' = [streak EXCEPT ![m] =
                            [p \in P |-> StreakAfter(track[m][p], streak[m][p], rows, p)]]
            /\ expect' = [expect EXCEPT ![m] =
                            [p \in P |-> IF connected
                                         THEN ExpectAfter(track[m][p], streak[m][p], rows, p)
                                         ELSE -1]]
            /\ last_query' = [last_query EXCEPT ![m] = "ok"]
            /\ NextFinalization(m, c, rest, <<>>)
    /\ UNCHANGED <<now, collection, stop_event, finalized, dedup_hit,
                   stop_calls, stop_at>>
    /\ UNCHANGED otherVars

\* The pre-check returned: a document with the natural key exists (the entry is
\* deleted without an insert) or not (insert_one is issued).
FindOneDone(m) ==
    /\ pc[m] = "find_one"
    /\ LET d == data_to_insert[m] IN
       IF existing_query(collection, d)
       THEN /\ pid_time_cache' = [pid_time_cache EXCEPT ![m] = RemoveKey(@, d.pid)]
            /\ track' = [track EXCEPT ![m][d.pid] = "none"]
            /\ finalized' = finalized \cup {NaturalKey(d)}
            /\ dedup_hit' = TRUE
            /\ NextFinalization(m, pid_time_cache'[m], todo[m], emitted[m])
       ELSE /\ pc' = [pc EXCEPT ![m] = "insert_one"]
            /\ UNCHANGED <<pid_time_cache, track, finalized, dedup_hit, todo,
                           data_to_insert, wake, emitted>>
    /\ UNCHANGED <<now, mongo_client, collection, stop_event, streak, expect, last_query,
                   stop_calls, stop_at>>
    /\ UNCHANGED otherVars

\* The pre-check raised: logged, the entry stays cached, the loop goes on.
FindOneFailed(m) ==
    /\ pc[m] = "find_one"
    /\ track' = [track EXCEPT ![m][data_to_insert[m].pid] = "other"]
    /\ NextFinalization(m, pid_time_cache[m], todo[m], emitted[m])
    /\ UNCHANGED <<now, mongo_client, collection, stop_event, pid_time_cache, streak,
                   expect, last_query, finalized, dedup_hit, stop_calls, stop_at>>
    /\ UNCHANGED otherVars

\* insert_one returned: the document is stored and the entry deleted.
InsertDone(m) ==
    /\ pc[m] = "insert_one"
    /\ LET d == data_to_insert[m] IN
       /\ collection' = insert_one(collection, d)
       /\ pid_time_cache' = [pid_time_cache EXCEPT ![m] = RemoveKey(@, d.pid)]
       /\ track' = [track EXCEPT ![m][d.pid] = "none"]
       /\ finalized' = finalized \cup {NaturalKey(d)}
       /\ NextFinalization(m, pid_time_cache'[m], todo[m], emitted[m])
    /\ UNCHANGED <<now, mongo_client, stop_event, streak, expect, last_query, dedup_hit,
                   stop_calls, stop_at>>
    /\ UNCHANGED otherVars

\* The entry is deleted although insert_one raised.
InsertFailed_Drop(m) ==
    /\ pc[m] = "insert_one"
    /\ \E stored \in BOOLEAN :
        collection' = IF stored THEN insert_one(collection, data_to_insert[m])
                      ELSE collection
    /\ pid_time_cache' = [pid_time_cache EXCEPT ![m] = RemoveKey(@, data_to_insert[m].pid)]
    /\ track' = [track EXCEPT ![m][data_to_insert[m].pid] = "other"]
    /\ NextFinalization(m, pid_time_cache'[m], todo[m], emitted[m])
    /\ UNCHANGED <<now, mongo_client, stop_event, streak, expect,
                   last_query, finalized, dedup_hit, stop_calls, stop_at>>
    /\ UNCHANGED otherVars

\* insert_one raised, before the server stored the document or after it did
\* (the acknowledgement was lost): logged, the entry stays cached.
InsertFailed(m) ==
    /\ pc[m] = "insert_one"
    /\ \E stored \in BOOLEAN :
        collection' = IF stored THEN insert_one(collection, data_to_insert[m])
                      ELSE collection
    /\ track' = [track EXCEPT ![m][data_to_insert[m].pid] = "other"]
    /\ NextFinalization(m, pid_time_cache[m], todo[m], emitted[m])
    /\ UNCHANGED <<now, mongo_client, stop_event, pid_time_cache, streak, expect,
                   last_query, finalized, dedup_hit, stop_calls, stop_at>>
    /\ UNCHANGED otherVars

\* SlowQueryMonitor.stop: sets the event.
stop_Preemptive(m) ==
    /\ stop_event' = [stop_event EXCEPT ![m] = TRUE]
    /\ pc' = [pc EXCEPT ![m] = "stopped"]

stop(m) ==
    /\ stop_event' = [stop_event EXCEPT ![m] = TRUE]
    /\ pc' = pc

\* A caller invokes stop() on a constructed monitor, at any moment.
StopCall(m) ==
    /\ pc[m] # "none"
    /\ stop_calls[m] < MaxStopCalls
    /\ stop(m)
    /\ stop_calls' = [stop_calls EXCEPT ![m] = @ + 1]
    /\ stop_at' = [stop_at EXCEPT ![m] = IF stop_calls[m] = 0 THEN pc[m] ELSE @]
    /\ UNCHANGED <<now, mongo_client, collection, pid_time_cache, todo,
                   data_to_insert, wake, track, streak, expect, emitted, last_query,
                   finalized, dedup_hit>>
    /\ UNCHANGED otherVars

\* A second of wall-clock time passes. Time is let pass only while a sleeping
\* loop waits for it: the I/O of a cycle takes no time of its own.
Tick ==
    /\ now < MaxClock
    /\ \E m \in MonitorIds : pc[m] = "sleep" /\ now < wake[m]
    /\ now' = now + 1
    /\ UNCHANGED <<mongo_client, collection, pc, stop_event, pid_time_cache, todo,
                   data_to_insert, wake, histVars>>
    /\ UNCHANGED otherVars

\* The collector before any call.
Streams == 1..NumStreams

InitFetchIdle ==
    /\ fetch_pc = "idle"
    /\ log_streams = <<>>
    /\ batch_start = 1
    /\ stream_pc = [s \in Streams |-> "idle"]
    /\ stream_events = [s \in Streams |-> <<>>]
    /\ next_token = [s \in Streams |-> 0]
    /\ all_events = <<>>
    /\ fetch_result = <<>>
    /\ delivered = [s \in Streams |-> <<>>]
    /\ failed = [s \in Streams |-> FALSE]
    /\ completion = <<>>

InitSaveIdle ==
    /\ instances_data = <<>>
    /\ digest_collection = EmptyBag
    /\ save_pc = "idle"
    /\ save_run = 0
    /\ save_todo = <<>>
    /\ acked = {}
    /\ overwritten = {}
    /\ current_date = TargetDate
    /\ range_pc = "idle"
    /\ skipped = {}
    /\ save_raised = {}

\* The monitor API at import: nothing runs.
InitNormIdle ==
    /\ norm_pc = "idle"
    /\ query = <<>>
    /\ other_query = <<>>
    /\ normalized = <<>>
    /\ renormalized = <<>>
    /\ other_normalized = <<>>
    /\ folded = <<>>

InitAggIdle ==
    /\ agg_pc = "idle"
    /\ logs = <<>>
    /\ results = <<>>

InitSqlIdle ==
    /\ sql_pc = "idle"
    /\ sql_raw = <<>>
    /\ sql_query = <<>>
    /\ sql_strips = 0
    /\ sql_class = {}

Sockets == {1, 2}
NoStatus == "none"
NoBroadcast ==
    [sending |-> 0, orig |-> {}, set |-> {}, visited |-> {}, detached |-> FALSE,
     dead |-> {}, phase |-> "none"]

InitWsIdle ==
    /\ connections = {}
    /\ collection_status = NoStatus
    /\ ws_state = [w \in Sockets |-> "new"]
    /\ received = [w \in Sockets |-> {}]
    /\ on_connect = [w \in Sockets |->
                        [got |-> NoStatus, latest |-> NoStatus, dropped |-> FALSE,
                         unheard |-> FALSE]]
    /\ run_pc = "idle"
    /\ progress_count = 0
    /\ bc = NoBroadcast
    /\ published = <<>>
    /\ status_dropped = FALSE
    /\ unheard = FALSE

InitStatIdle ==
    /\ source_collection = {}
    /\ stats_collection = {}
    /\ calc_pc = "idle"
    /\ year_month = ""
    /\ calc_results = {}
    /\ calc_run = 0

InitSharedIdle ==
    /\ client_id = 0
    /\ clients_made = 0
    /\ closed_clients = {}
    /\ bound_client = 0
    /\ shared_pc = "idle"
    /\ written_through = {}

InitOverlapIdle == calls = <<>>

InitLaterIdle == InitSharedIdle /\ InitOverlapIdle

InitExampleIdle ==
    /\ example_pc = "idle"
    /\ stats_by_digest = <<>>
    /\ seen_bodies = {}
    /\ example_results = <<>>

InitRestIdle ==
    /\ InitNormIdle /\ InitAggIdle /\ InitSqlIdle /\ InitWsIdle /\ InitStatIdle
    /\ InitExampleIdle /\ InitLaterIdle

InitApi ==
    /\ monitor_running = FALSE
    /\ monitoring_task = 0
    /\ api_monitors = {}
    /\ task_pc = [t \in Tasks |-> "none"]
    /\ cancel_req = [t \in Tasks |-> FALSE]
    /\ stop_pc = {}
    /\ pending = [t \in Tasks |-> <<>>]
    /\ built = [t \in Tasks |-> {}]
    /\ loaded = [t \in Tasks |-> <<>>]
    /\ init_result = [t \in Tasks |-> [i \in Instances |-> "none"]]
    /\ interrupted_at = [m \in MonitorIds |-> ""]
    /\ status_reply = [status |-> "none", active |-> FALSE, unwinding |-> FALSE]
    /\ answered = {}

\* ------------------------------------------------------------------------
\* Specification of one monitor: a SlowQueryMonitor constructed for db1,
\* initialized, its run_mysql_slow_queries coroutine scheduled.
\* ------------------------------------------------------------------------
TrackerPids == {101, 102}
TrackerTimes == {NullTime, 1, 3, 5}
TrackerDbs == {"app"}
M1 == <<1, "db1">>

InitTracker ==
    /\ now = 0
    /\ mongo_client = TRUE
    /\ collection = EmptyBag
    /\ pc = [m \in MonitorIds |-> IF m = M1 THEN "launched" ELSE "none"]
    /\ stop_event = [m \in MonitorIds |-> FALSE]
    /\ pid_time_cache = [m \in MonitorIds |-> <<>>]
    /\ todo = [m \in MonitorIds |-> {}]
    /\ data_to_insert = [m \in MonitorIds |-> NoDoc]
    /\ wake = [m \in MonitorIds |-> 0]
    /\ track = [m \in MonitorIds |-> [p \in TrackerPids |-> "none"]]
    /\ streak = [m \in MonitorIds |-> [p \in TrackerPids |-> <<>>]]
    /\ expect = [m \in MonitorIds |-> [p \in TrackerPids |-> 0]]
    /\ emitted = [m \in MonitorIds |-> <<>>]
    /\ last_query = [m \in MonitorIds |-> "none"]
    /\ finalized = {}
    /\ dedup_hit = FALSE
    /\ stop_calls = [m \in MonitorIds |-> 0]
    /\ stop_at = [m \in MonitorIds |-> ""]
    /\ InitApi
    /\ InitFetchIdle
    /\ InitSaveIdle
    /\ InitRestIdle

NextTracker ==
    \/ LoopEnter(M1)
    \/ SleepDone(M1)
    \/ QueryFailed(M1)
    \/ QueryDone(M1, Snapshots(TrackerPids, TrackerDbs, TrackerTimes))
    \/ FindOneDone(M1)
    \/ FindOneFailed(M1)
    \/ InsertDone(M1)
    \/ InsertFailed(M1)
    \/ Tick

SpecTracker == InitTracker /\ [][NextTracker]_vars

\* The same monitor against a process table of one pid, with the scheduling
\* asyncio guarantees: a coroutine whose awaited I/O or sleep has completed is
\* resumed, and the clock advances.
SamplerPids == {101}
SamplerTimes == {1, 3}

MonitorStep(m, Snaps) ==
    \/ LoopEnter(m)
    \/ SleepDone(m)
    \/ QueryFailed(m)
    \/ QueryDone(m, Snaps)
    \/ FindOneDone(m)
    \/ FindOneFailed(m)
    \/ InsertDone(m)
    \/ InsertFailed(m)

NextSampler ==
    \/ MonitorStep(M1, Snapshots(SamplerPids, TrackerDbs, SamplerTimes))
    \/ StopCall(M1)
    \/ Tick

SpecSampler ==
    /\ InitTracker
    /\ [][NextSampler]_vars
    /\ WF_vars(MonitorStep(M1, Snapshots(SamplerPids, TrackerDbs, SamplerTimes)))
    /\ WF_vars(Tick)

\* ------------------------------------------------------------------------
\* Claims about the tracker and the sampler
\* ------------------------------------------------------------------------
EmittedFor(m, p) == SelectSeq(emitted[m], LAMBDA d : d.pid = p)
CycleOver(m) == pc[m] \notin {"find_one", "insert_one"}

\* C1: a pid seen at or above the threshold in one or more consecutive cycles
\* and then absent is finalized exactly once, in the cycle in which it is
\* absent, with time = the largest elapsed seen; nothing is emitted for it
\* while it is present, nor in later cycles.
C1_LifecycleFinalization ==
    \A m \in MonitorIds : \A p \in DOMAIN expect[m] :
        LET E == EmittedFor(m, p) IN
        /\ expect[m][p] = 0 => E = <<>>
        /\ expect[m][p] > 0 =>
              /\ Len(E) <= 1
              /\ CycleOver(m) => Len(E) = 1
              /\ Len(E) = 1 => /\ E[1].time = expect[m][p]
                               /\ E[1].time = SeqMax(streak[m][p])

\* C1 witness: pid 101 seen with elapsed 3, then 5, then absent; the cycle is
\* over and its one record, time 5, is stored.
C1_Witness ==
    /\ streak[M1][101] = <<3, 5>>
    /\ expect[M1][101] = 5
    /\ pc[M1] = "sleep"
    /\ Len(EmittedFor(M1, 101)) = 1
    /\ \E d \in BagToSet(collection) : d.pid = 101 /\ d.time = 5 /\ d.end = d.start + 4

RECURSIVE SumCopies(_, _)
SumCopies(S, coll) ==
    IF S = {} THEN 0
    ELSE LET e == CHOOSE e \in S : TRUE
         IN  CopiesIn(e, coll) + SumCopies(S \ {e}, coll)

KeyCount(coll, k) == SumCopies({e \in BagToSet(coll) : NaturalKey(e) = k}, coll)

\* C2: the realtime collection never holds two documents with the same
\* (pid, instance, db, start), and every finalized record, also one with the
\* pid of an earlier record and another start, is stored.
C2_DedupNaturalKey ==
    /\ \A d \in BagToSet(collection) : KeyCount(collection, NaturalKey(d)) = 1
    /\ \A k \in finalized : KeyCount(collection, k) = 1

\* C2 witness: a finalize event was processed twice (a pre-check found its
\* document) and two records of one pid with different start are both stored.
C2_Witness ==
    /\ dedup_hit
    /\ \E d, e \in BagToSet(collection) :
          d.pid = e.pid /\ d.instance = e.instance /\ d.start # e.start
    /\ Cardinality(finalized) >= 2

\* C4: stop() only sets the flag and leaves the loop where it is (a second
\* call changes nothing); with the flag set the loop issues no new
\* process-table query, and it terminates.
C4_CooperativeStop ==
    /\ [][\A m \in MonitorIds :
            /\ StopCall(m) => pc'[m] = pc[m] /\ stop_event'[m]
            /\ (StopCall(m) /\ stop_event[m]) => UNCHANGED monVars
            /\ (stop_event[m] /\ pc[m] # "query") => pc'[m] # "query"]_vars
    /\ \A m \in MonitorIds : (stop_event[m] ~> pc[m] = "stopped")

\* C4 witness: stop() was called twice, first while the pre-check of a
\* finalization was in flight, and the loop has ended.
C4_Witness ==
    /\ stop_calls[M1] = 2
    /\ stop_at[M1] = "find_one"
    /\ pc[M1] = "stopped"

\* C6: after a failed process-table query the loop is asleep or has issued
\* the next query; it ends only when stop was signalled.
C6_QueryFailureNonFatal ==
    \A m \in MonitorIds :
        last_query[m] = "failed" =>
            \/ pc[m] \in {"sleep", "query"}
            \/ pc[m] = "stopped" /\ stop_event[m]

\* C6 witness: the query failed and the loop has issued the next one.
C6_Witness ==
    /\ last_query[M1] = "failed"
    /\ pc[M1] = "query"
    /\ ~stop_event[M1]

\* ------------------------------------------------------------------------
\* The monitor API: start_monitoring, stop_monitoring, get_monitor_status and
\* the task run_all_monitors (MongoDBConnector.initialize, initialize_monitors,
\* run_monitors, finally).
\*
\* InstanceLoader and MySQLConnector are collaborators: the loader returns
\* some list of instances (an empty one when it fails), and for each instance
\* create_mysql_connector and monitor.initialize return or raise. (With the
\* loader of modules/load_instance.py the dictionaries carry no mgmt_user, so
\* create_mysql_connector raises KeyError for each of them: the raising
\* outcome below.)
\* ------------------------------------------------------------------------
InstanceLists == {<<>>, <<"db1">>, <<"db2">>, <<"db1", "db2">>}

MonitorsOf(t, S) == {<<t, i>> : i \in S}

TaskActive == \E t \in Tasks : task_pc[t] \notin {"none", "done"}

\* for monitor in monitors: await monitor.stop()
stop_each(mons) ==
    stop_event' = [m \in MonitorIds |-> stop_event[m] \/ m \in mons]

\* The finally clause of run_all_monitors: every monitor of the global list is
\* told to stop and the MongoDB client is closed.
Finally(t, mons) ==
    /\ stop_each(mons)
    /\ mongo_client' = FALSE
    /\ task_pc' = [task_pc EXCEPT ![t] = "done"]

\* monitors = <the list initialize_monitors returned>; run_monitors(monitors):
\* with no monitor it returns at once, else one run_mysql_slow_queries
\* coroutine per monitor is handed to asyncio.gather.
RunMonitors(t, blt, connected) ==
    /\ api_monitors' = MonitorsOf(t, blt)
    /\ IF blt = {}
       THEN /\ Finally(t, {})
            /\ pc' = pc
       ELSE /\ task_pc' = [task_pc EXCEPT ![t] = "gather"]
            /\ pc' = [m \in MonitorIds |->
                        IF m \in MonitorsOf(t, blt) THEN "launched" ELSE pc[m]]
            /\ mongo_client' = connected
            /\ stop_event' = stop_event

\* The for loop of initialize_monitors moves on: to the next instance, or,
\* with none left, to the return.
NextInstance(t, rest, blt, connected) ==
    /\ pending' = [pending EXCEPT ![t] = rest]
    /\ built' = [built EXCEPT ![t] = blt]
    /\ IF rest = <<>>
       THEN RunMonitors(t, blt, connected)
       ELSE /\ task_pc' = [task_pc EXCEPT ![t] = "create_pool"]
            /\ mongo_client' = connected
            /\ UNCHANGED <<api_monitors, pc, stop_event>>

\* except Exception in the for loop: logged, continue.
SkipInstance_Abort(t, connected) ==
    /\ init_result' = [init_result EXCEPT ![t][Head(pending[t])] = "failed"]
    /\ NextInstance(t, <<>>, built[t], connected)

SkipInstance(t, connected) ==
    /\ init_result' = [init_result EXCEPT ![t][Head(pending[t])] = "failed"]
    /\ NextInstance(t, Tail(pending[t]), built[t], connected)

\* POST /mysql/start: 400 while the flag is set; else the flag is set and the
\* task created. The flag is all the handler reads: a stop_monitoring that
\* awaits its task has cleared it.
start_monitoring(t) ==
    /\ ~monitor_running
    /\ task_pc[t] = "none"
    /\ \A u \in Tasks : u < t => task_pc[u] # "none"
    /\ monitor_running' = TRUE
    /\ monitoring_task' = t
    /\ task_pc' = [task_pc EXCEPT ![t] = "created"]
    /\ UNCHANGED <<monVars, histVars, api_monitors, cancel_req, stop_pc, pending, built,
                   loaded, init_result, interrupted_at, status_reply, answered>>
    /\ UNCHANGED cwVars

\* GET /mysql/status
get_monitor_status ==
    /\ status_reply' = [status |-> IF monitor_running THEN "running" ELSE "stopped",
                        active |-> TaskActive,
                        unwinding |-> \E t \in Tasks : cancel_req[t]]
    /\ UNCHANGED <<monVars, histVars, monitor_running, monitoring_task, api_monitors,
                   task_pc, cancel_req, stop_pc, pending, built, loaded, init_result,
                   interrupted_at, answered>>
    /\ UNCHANGED cwVars

\* POST /mysql/stop up to await monitoring_task: 400 while the flag is clear;
\* else the flag is cleared and the task cancelled. A task that is done is
\* awaited without suspension, and the handler runs to its end.
stop_monitoring ==
    /\ monitor_running
    /\ monitor_running' = FALSE
    /\ IF task_pc[monitoring_task] = "done"
       THEN /\ stop_each(api_monitors)
            /\ api_monitors' = {}
            /\ answered' = answered \cup {monitoring_task}
            /\ UNCHANGED <<cancel_req, stop_pc>>
       ELSE /\ cancel_req' = [cancel_req EXCEPT ![monitoring_task] = TRUE]
            /\ stop_pc' = stop_pc \cup {monitoring_task}
            /\ UNCHANGED <<stop_event, api_monitors, answered>>
    /\ UNCHANGED <<now, mongo_client, collection, pc, pid_time_cache, todo,
                   data_to_insert, wake, histVars, monitoring_task, task_pc, pending,
                   built, loaded, init_result, interrupted_at, status_reply>>
    /\ UNCHANGED cwVars

\* stop_monitoring after await monitoring_task, t being the task it awaited:
\* every monitor of the global list is told to stop, the list is cleared, the
\* response is sent.
StopReturn(t) ==
    /\ t \in stop_pc
    /\ task_pc[t] = "done"
    /\ stop_each(api_monitors)
    /\ api_monitors' = {}
    /\ stop_pc' = stop_pc \ {t}
    /\ answered' = answered \cup {t}
    /\ UNCHANGED <<now, mongo_client, collection, pc, pid_time_cache, todo,
                   data_to_insert, wake, histVars, monitor_running, monitoring_task,
                   task_pc, cancel_req, pending, built, loaded, init_result,
                   interrupted_at, status_reply>>
    /\ UNCHANGED cwVars

\* run_all_monitors, first step: MongoDBConnector.initialize connects when
\* there is no client (the client object is set, then the ping awaited);
\* with a client, initialize_monitors starts and awaits the loader.
TaskStart(t) ==
    /\ task_pc[t] = "created"
    /\ ~cancel_req[t]
    /\ mongo_client' = TRUE
    /\ task_pc' = [task_pc EXCEPT ![t] = IF mongo_client THEN "load" ELSE "mongo_init"]
    /\ UNCHANGED <<now, collection, pc, stop_event, pid_time_cache, todo, data_to_insert,
                   wake, histVars, monitor_running, monitoring_task, api_monitors,
                   cancel_req, stop_pc, pending, built, loaded, init_result,
                   interrupted_at, status_reply, answered>>
    /\ UNCHANGED cwVars

MongoInitDone(t) ==
    /\ task_pc[t] = "mongo_init"
    /\ ~cancel_req[t]
    /\ task_pc' = [task_pc EXCEPT ![t] = "load"]
    /\ UNCHANGED <<monVars, histVars, monitor_running, monitoring_task, api_monitors,
                   cancel_req, stop_pc, pending, built, loaded, init_result,
                   interrupted_at, status_reply, answered>>
    /\ UNCHANGED cwVars

\* _connect raised: except Exception logs it, the finally clause runs.
MongoInitFailed(t) ==
    /\ task_pc[t] = "mongo_init"
    /\ ~cancel_req[t]
    /\ Finally(t, api_monitors)
    /\ UNCHANGED <<now, collection, pc, pid_time_cache, todo, data_to_insert, wake,
                   histVars, monitor_running, monitoring_task, api_monitors, cancel_req,
                   stop_pc, pending, built, loaded, init_result, interrupted_at,
                   status_reply, answered>>
    /\ UNCHANGED cwVars

\* load_realtime_instances returned (the empty list when the load failed).
LoadDone(t) ==
    /\ task_pc[t] = "load"
    /\ ~cancel_req[t]
    /\ \E insts \in InstanceLists :
        /\ loaded' = [loaded EXCEPT ![t] = insts]
        /\ NextInstance(t, insts, {}, mongo_client)
    /\ UNCHANGED <<now, collection, pid_time_cache, todo, data_to_insert, wake, histVars,
                   monitor_running, monitoring_task, cancel_req, stop_pc, init_result,
                   interrupted_at, status_reply, answered>>
    /\ UNCHANGED cwVars

\* create_mysql_connector returned: SlowQueryMonitor(mysql_conn) is built and
\* monitor.initialize awaits MongoDBConnector.get_database.
CreatePoolDone(t) ==
    /\ task_pc[t] = "create_pool"
    /\ ~cancel_req[t]
    /\ task_pc' = [task_pc EXCEPT ![t] = "initialize"]
    /\ UNCHANGED <<monVars, histVars, monitor_running, monitoring_task, api_monitors,
                   cancel_req, stop_pc, pending, built, loaded, init_result,
                   interrupted_at, status_reply, answered>>
    /\ UNCHANGED cwVars

CreatePoolFailed(t) ==
    /\ task_pc[t] = "create_pool"
    /\ ~cancel_req[t]
    /\ SkipInstance(t, mongo_client)
    /\ UNCHANGED <<now, collection, pid_time_cache, todo, data_to_insert, wake, histVars,
                   monitor_running, monitoring_task, cancel_req, stop_pc, loaded,
                   interrupted_at, status_reply, answered>>
    /\ UNCHANGED cwVars

\* monitor.initialize returned: monitors.append(monitor).
InitializeDone(t) ==
    /\ task_pc[t] = "initialize"
    /\ ~cancel_req[t]
    /\ init_result' = [init_result EXCEPT ![t][Head(pending[t])] = "ok"]
    /\ NextInstance(t, Tail(pending[t]), built[t] \cup {Head(pending[t])}, TRUE)
    /\ UNCHANGED <<now, collection, pid_time_cache, todo, data_to_insert, wake, histVars,
                   monitor_running, monitoring_task, cancel_req, stop_pc, loaded,
                   interrupted_at, status_reply, answered>>
    /\ UNCHANGED cwVars

\* monitor.initialize raised: get_database found the connection gone and
\* _connect failed, which leaves no client.
InitializeFailed(t) ==
    /\ task_pc[t] = "initialize"
    /\ ~cancel_req[t]
    /\ SkipInstance(t, FALSE)
    /\ UNCHANGED <<now, collection, pid_time_cache, todo, data_to_insert, wake, histVars,
                   monitor_running, monitoring_task, cancel_req, stop_pc, loaded,
                   interrupted_at, status_reply, answered>>
    /\ UNCHANGED cwVars

\* task.cancel() reaches a run_mysql_slow_queries coroutine of the gather:
\* CancelledError is raised at the await the coroutine is suspended in (a
\* coroutine that has not started never runs). except Exception does not catch
\* it, except asyncio.CancelledError of run_mysql_slow_queries does: the loop
\* is left.
Cancelled(m) ==
    /\ cancel_req[TaskOf(m)]
    /\ task_pc[TaskOf(m)] = "gather"
    /\ pc[m] \in {"launched", "query", "find_one", "insert_one", "sleep"}
    /\ pc' = [pc EXCEPT ![m] = "cancelled"]
    /\ interrupted_at' = [interrupted_at EXCEPT ![m] = pc[m]]
    /\ UNCHANGED <<now, mongo_client, collection, stop_event, pid_time_cache, todo,
                   data_to_insert, wake, histVars, monitor_running, monitoring_task,
                   api_monitors, task_pc, cancel_req, stop_pc, pending, built, loaded,
                   init_result, status_reply, answered>>
    /\ UNCHANGED cwVars

\* CancelledError reaches run_all_monitors: at once when it awaits its own
\* I/O, after the coroutines of the gather have ended when it awaits
\* run_monitors. It is re-raised and the finally clause runs. A task cancelled
\* before its first step never runs.
TaskCancelled(t) ==
    /\ cancel_req[t]
    /\ task_pc[t] \notin {"none", "done"}
    /\ task_pc[t] = "gather" =>
          \A m \in MonitorsOf(t, built[t]) : pc[m] \in {"cancelled", "stopped"}
    /\ cancel_req' = [cancel_req EXCEPT ![t] = FALSE]
    /\ IF task_pc[t] = "created"
       THEN /\ task_pc' = [task_pc EXCEPT ![t] = "done"]
            /\ UNCHANGED <<stop_event, mongo_client>>
       ELSE Finally(t, api_monitors)
    /\ UNCHANGED <<now, collection, pc, pid_time_cache, todo, data_to_insert, wake,
                   histVars, monitor_running, monitoring_task, api_monitors, stop_pc,
                   pending, built, loaded, init_result, interrupted_at, status_reply,
                   answered>>
    /\ UNCHANGED cwVars

\* ------------------------------------------------------------------------
\* Specification of the monitor API: one episode of the service. Requests
\* arrive in any order, one monitoring task is created, and its monitors run
\* against a process table of one pid. The service starts one second before
\* the process tables go quiet.
\* ------------------------------------------------------------------------
OrchTasks == {1}
OrchPids == {101}
OrchTimes == {3}

InitService ==
    /\ now = MaxClock - 1
    /\ mongo_client = FALSE
    /\ collection = EmptyBag
    /\ pc = [m \in MonitorIds |-> "none"]
    /\ stop_event = [m \in MonitorIds |-> FALSE]
    /\ pid_time_cache = [m \in MonitorIds |-> <<>>]
    /\ todo = [m \in MonitorIds |-> {}]
    /\ data_to_insert = [m \in MonitorIds |-> NoDoc]
    /\ wake = [m \in MonitorIds |-> 0]
    /\ track = [m \in MonitorIds |-> [p \in OrchPids |-> "none"]]
    /\ streak = [m \in MonitorIds |-> [p \in OrchPids |-> <<>>]]
    /\ expect = [m \in MonitorIds |-> [p \in OrchPids |-> 0]]
    /\ emitted = [m \in MonitorIds |-> <<>>]
    /\ last_query = [m \in MonitorIds |-> "none"]
    /\ finalized = {}
    /\ dedup_hit = FALSE
    /\ stop_calls = [m \in MonitorIds |-> 0]
    /\ stop_at = [m \in MonitorIds |-> ""]
    /\ InitApi

InitOrch == InitService /\ InitFetchIdle /\ InitSaveIdle /\ InitRestIdle

\* A step of a monitor's loop: its awaited I/O or sleep completed. Once the
\* task is cancelled the next resumption raises CancelledError instead.
RunningMonitorStep(m) ==
    /\ ~cancel_req[TaskOf(m)]
    /\ MonitorStep(m, Snapshots(OrchPids, TrackerDbs, OrchTimes))

NextOrch ==
    \/ \E t \in OrchTasks : start_monitoring(t)
    \/ stop_monitoring
    \/ \E t \in Tasks : StopReturn(t)
    \/ get_monitor_status
    \/ \E t \in Tasks : TaskStart(t)
    \/ \E t \in Tasks : MongoInitDone(t)
    \/ \E t \in Tasks : MongoInitFailed(t)
    \/ \E t \in Tasks : LoadDone(t)
    \/ \E t \in Tasks : CreatePoolDone(t)
    \/ \E t \in Tasks : CreatePoolFailed(t)
    \/ \E t \in Tasks : InitializeDone(t)
    \/ \E t \in Tasks : InitializeFailed(t)
    \/ \E m \in MonitorIds : Cancelled(m)
    \/ \E t \in Tasks : TaskCancelled(t)
    \/ \E m \in MonitorIds : RunningMonitorStep(m)
    \/ Tick

SpecOrch == InitOrch /\ [][NextOrch]_vars

\* ------------------------------------------------------------------------
\* Claims about the monitor API
\* ------------------------------------------------------------------------
\* C3: stop_monitoring returns only after every sampling loop of the task has
\* ended, and every loop ends gracefully: none is left with its process-table
\* query, its duplicate pre-check or its insert in flight.
C3_GracefulStop ==
    /\ \A t \in answered : \A i \in Instances :
          pc[<<t, i>>] \in {"none", "stopped", "cancelled"}
    /\ \A m \in MonitorIds :
          pc[m] = "cancelled" => interrupted_at[m] \in {"launched", "sleep"}

\* C5: get_monitor_status answers "running" exactly when a monitoring task
\* exists that has not finished. (A task that stop_monitoring has cancelled
\* and that is still unwinding is not held against the answer "stopped".)
C5_StatusIffTaskActive ==
    status_reply.status # "none" =>
        /\ status_reply.status = "running" => status_reply.active
        /\ (status_reply.active /\ ~status_reply.unwinding) =>
              status_reply.status = "running"

\* C7: when initialize_monitors has returned, every instance the loader
\* returned was visited; one whose connector or tracker initialization failed
\* has no monitor, one whose initialization succeeded has a monitor whose
\* loop was launched.
InitReturned(t) == task_pc[t] \in {"gather", "done"} /\ loaded[t] # <<>> /\ pending[t] = <<>>

C7_InitFailureIsolated ==
    \A t \in Tasks : InitReturned(t) =>
        \A k \in DOMAIN loaded[t] :
            LET i == loaded[t][k] IN
            /\ init_result[t][i] \in {"ok", "failed"}
            /\ init_result[t][i] = "failed" => pc[<<t, i>>] = "none"
            /\ init_result[t][i] = "ok" => pc[<<t, i>>] # "none"

\* C7 witness: of db1 and db2 the first failed to initialize and the second
\* succeeded; db2's loop runs, db1 has no monitor.
C7_Witness ==
    /\ loaded[1] = <<"db1", "db2">>
    /\ init_result[1] = [i \in Instances |-> IF i = "db1" THEN "failed" ELSE "ok"]
    /\ task_pc[1] = "gather"
    /\ pc[<<1, "db2">>] = "query"
    /\ pc[<<1, "db1">>] = "none"

\* ------------------------------------------------------------------------
\* The CloudWatch collector: _get_slow_query_logs
\*
\* The CloudWatch Logs service is a collaborator: describe_log_streams
\* returns up to NumStreams streams or raises, and every get_log_events call
\* returns a page (events and a forward token) or raises.
\* ------------------------------------------------------------------------
FetchTimestamps == {1, 2}

\* The pages the service can return: the events of stream s on the page (at
\* most `limit` = batch_size of them) and whether the forward token differs
\* from the token sent.
PageEvents(s) ==
    { <<>> } \cup { << [timestamp |-> ts, logStream |-> s] >> : ts \in FetchTimestamps }

\* Every page of up to `limit` = batch_size events.
FullPages(s) ==
    UNION { [1..n -> { [timestamp |-> ts, logStream |-> s] : ts \in FetchTimestamps }]
            : n \in 0..batch_size }

\* The pages followed: every page for a log group with a single stream, the
\* pages of at most one event when several streams are fetched.
Pages(streams, s) == IF Len(streams) = 1 THEN FullPages(s) ELSE PageEvents(s)

RECURSIVE Concat(_)
Concat(ss) == IF ss = <<>> THEN <<>> ELSE Head(ss) \o Concat(Tail(ss))

\* list.sort(key=lambda x: x.get('timestamp', 0)): a stable sort.
RECURSIVE InsertByTimestamp(_, _)
InsertByTimestamp(e, sorted) ==
    IF sorted = <<>> THEN <<e>>
    ELSE IF Head(sorted).timestamp <= e.timestamp
         THEN <<Head(sorted)>> \o InsertByTimestamp(e, Tail(sorted))
         ELSE <<e>> \o sorted

RECURSIVE SortByTimestamp(_)
SortByTimestamp(events) ==
    IF events = <<>> THEN <<>>
    ELSE InsertByTimestamp(events[Len(events)],
                           SortByTimestamp(SubSeq(events, 1, Len(events) - 1)))

\* batch_streams = log_streams[i:i + max_concurrent_streams]
BatchStreams_Rest(streams, i) == SubSeq(streams, i, Len(streams))

BatchStreams(streams, i) ==
    SubSeq(streams, i, Min2(i + max_concurrent_streams - 1, Len(streams)))

Range(q) == { q[k] : k \in DOMAIN q }

\* for result in batch_results: all_events.extend(result). gather returns the
\* results in the order of its arguments.
batch_results_ByCompletion(batch) ==
    Concat([k \in DOMAIN completion |-> stream_events[completion[k]]])

batch_results(batch) ==
    Concat([k \in DOMAIN batch |-> stream_events[batch[k]]])

\* The for loop over the batches: with streams left, the process_stream
\* coroutines of the next batch run up to their first get_log_events and
\* gather awaits them; with none left the events are sorted and returned.
NextBatch(streams, i, events) ==
    /\ batch_start' = i
    /\ IF i > Len(streams)
       THEN /\ fetch_pc' = "done"
            /\ all_events' = SortByTimestamp(events)
            /\ fetch_result' = SortByTimestamp(events)
            /\ UNCHANGED <<stream_pc, completion>>
       ELSE /\ fetch_pc' = "gather"
            /\ all_events' = events
            /\ stream_pc' = [s \in Streams |->
                               IF s \in Range(BatchStreams(streams, i))
                               THEN "request" ELSE stream_pc[s]]
            /\ completion' = <<>>
            /\ UNCHANGED fetch_result

\* describe_log_streams returned: no stream, return []; else the first batch.
DescribeDone ==
    /\ fetch_pc = "describe"
    /\ \E n \in 0..NumStreams :
        /\ log_streams' = [k \in 1..n |-> k]
        /\ NextBatch(log_streams', 1, <<>>)
    /\ UNCHANGED <<stream_events, next_token, delivered, failed>>
    /\ UNCHANGED <<monVars, histVars, apiVars, saveVars, restVars>>

\* describe_log_streams raised: logged, return [].
DescribeFailed ==
    /\ fetch_pc = "describe"
    /\ fetch_pc' = "done"
    /\ UNCHANGED <<log_streams, batch_start, stream_pc, stream_events, next_token,
                   all_events, fetch_result, delivered, failed, completion>>
    /\ UNCHANGED <<monVars, histVars, apiVars, saveVars, restVars>>

\* The two break conditions of the while loop of process_stream: an empty
\* page, a forward token equal to the token sent, or the accumulated events at
\* the cap; and more than twice the cap.
LoopBreak_NoCap(events, token, sent, acc) ==
    \/ events = <<>>
    \/ token = sent
    \/ Len(acc) > batch_size * 2

LoopBreak(events, token, sent, acc) ==
    \/ events = <<>>
    \/ token = sent
    \/ Len(acc) >= batch_size
    \/ Len(acc) > batch_size * 2

\* get_log_events of stream s returned a page: the events are appended, and
\* the loop ends on an empty page, on a token that did not advance or at the
\* cap; else the next page is requested.
PageDone(s) ==
    /\ fetch_pc = "gather"
    /\ stream_pc[s] = "request"
    /\ \E events \in Pages(log_streams, s), advanced \in BOOLEAN :
        LET sent == next_token[s]
            token == IF advanced THEN sent + 1 ELSE sent
            acc == stream_events[s] \o events
            break == LoopBreak(events, token, sent, acc)
        IN  /\ stream_events' = [stream_events EXCEPT ![s] = acc]
            /\ delivered' = [delivered EXCEPT ![s] = @ \o events]
            /\ IF break
               THEN /\ stream_pc' = [stream_pc EXCEPT ![s] = "done"]
                    /\ next_token' = [next_token EXCEPT ![s] = 0]
                    /\ completion' = Append(completion, s)
               ELSE /\ next_token' = [next_token EXCEPT ![s] = token]
                    /\ UNCHANGED <<stream_pc, completion>>
    /\ UNCHANGED <<fetch_pc, log_streams, batch_start, all_events, fetch_result, failed>>
    /\ UNCHANGED <<monVars, histVars, apiVars, saveVars, restVars>>

\* get_log_events of stream s raised: logged, break; process_stream returns
\* the events accumulated so far.
PageFailed(s) ==
    /\ fetch_pc = "gather"
    /\ stream_pc[s] = "request"
    /\ stream_pc' = [stream_pc EXCEPT ![s] = "done"]
    /\ next_token' = [next_token EXCEPT ![s] = 0]
    /\ failed' = [failed EXCEPT ![s] = TRUE]
    /\ completion' = Append(completion, s)
    /\ UNCHANGED <<fetch_pc, log_streams, batch_start, stream_events, all_events,
                   fetch_result, delivered>>
    /\ UNCHANGED <<monVars, histVars, apiVars, saveVars, restVars>>

\* gather returned: every process_stream of the batch has returned.
BatchDone ==
    /\ fetch_pc = "gather"
    /\ \A s \in Range(BatchStreams(log_streams, batch_start)) : stream_pc[s] = "done"
    /\ NextBatch(log_streams, batch_start + max_concurrent_streams,
                 all_events \o batch_results(BatchStreams(log_streams, batch_start)))
    /\ UNCHANGED <<log_streams, stream_events, next_token, delivered, failed>>
    /\ UNCHANGED <<monVars, histVars, apiVars, saveVars, restVars>>

\* ------------------------------------------------------------------------
\* Specification of one fetch call
\* ------------------------------------------------------------------------
InitFetch ==
    /\ InitService
    /\ InitSaveIdle
    /\ InitRestIdle
    /\ fetch_pc = "describe"
    /\ log_streams = <<>>
    /\ batch_start = 1
    /\ stream_pc = [s \in Streams |-> "idle"]
    /\ stream_events = [s \in Streams |-> <<>>]
    /\ next_token = [s \in Streams |-> 0]
    /\ all_events = <<>>
    /\ fetch_result = <<>>
    /\ delivered = [s \in Streams |-> <<>>]
    /\ failed = [s \in Streams |-> FALSE]
    /\ completion = <<>>

NextFetch ==
    \/ DescribeDone
    \/ DescribeFailed
    \/ \E s \in Streams : PageDone(s)
    \/ \E s \in Streams : PageFailed(s)
    \/ BatchDone

SpecFetch == InitFetch /\ [][NextFetch]_vars

\* ------------------------------------------------------------------------
\* Claims about the fetch
\* ------------------------------------------------------------------------
EventsOf(s, events) == SelectSeq(events, LAMBDA ev : ev.logStream = s)

\* C8: a stream one of whose get_log_events calls raised contributes no event
\* to the result, and the events of every other stream are returned.
C8_StreamIsolation ==
    fetch_pc = "done" =>
        \A s \in Range(log_streams) :
            /\ failed[s] => EventsOf(s, fetch_result) = <<>>
            /\ ~failed[s] => EventsOf(s, fetch_result) = SortByTimestamp(delivered[s])

\* C9: the returned list is sorted by timestamp ascending and is determined by
\* the pages the streams were served alone: it is the stable sort of the
\* streams' events taken in the order of log_streams, whatever the order in
\* which the streams completed.
IsSortedByTimestamp(events) ==
    \A k \in 1..(Len(events) - 1) : events[k].timestamp <= events[k + 1].timestamp

C9_FetchOrderDeterministic ==
    fetch_pc = "done" =>
        /\ IsSortedByTimestamp(fetch_result)
        /\ fetch_result =
              SortByTimestamp(Concat([k \in DOMAIN log_streams |-> delivered[log_streams[k]]]))

\* C9 witness: stream 2 completed before stream 1; stream 1 delivered
\* timestamps 2, 1 and stream 2 timestamp 1; the result lists stream 1's event
\* of timestamp 1 before stream 2's.
C9_Witness ==
    /\ fetch_pc = "done"
    /\ log_streams = <<1, 2>>
    /\ completion = <<2, 1>>
    /\ fetch_result = << [timestamp |-> 1, logStream |-> 1],
                         [timestamp |-> 1, logStream |-> 2],
                         [timestamp |-> 2, logStream |-> 1] >>

\* ------------------------------------------------------------------------
\* The CloudWatch collector: _save_metrics
\*
\* instances_data is the aggregate collect_metrics_by_range hands over: per
\* instance the list of query_data of _analyze_slow_queries, one per digest.
\* created_at (datetime.now) is the number of the call; a date is a day number.
\* ------------------------------------------------------------------------
DigestQueries == {"q1", "q2"}
ExecutionCounts == {1, 2}

QueryData(q, n) == [digest_query |-> q, execution_count |-> n]

\* The lists _analyze_slow_queries can return: digests pairwise distinct.
QueryLists ==
    { <<QueryData(q, n)>> : q \in DigestQueries, n \in ExecutionCounts }
    \cup { <<QueryData(qs[1], ns[1]), QueryData(qs[2], ns[2])>> :
              qs \in { <<"q1", "q2">>, <<"q2", "q1">> },
              ns \in ExecutionCounts \X ExecutionCounts }

\* instances_data holds the instances with a non-empty list.
InstancesData ==
    UNION { [I -> QueryLists] : I \in (SUBSET Instances) \ {{}} }

\* for instance_id, queries in instances_data.items(): for query_data in queries
RECURSIVE WorkOf(_, _)
WorkOf(data, insts) ==
    IF insts = {} THEN <<>>
    ELSE LET i == CHOOSE i \in insts : \A j \in insts : i = j \/ i = "db1"
         IN  [k \in DOMAIN data[i] |-> <<i, data[i][k]>>] \o WorkOf(data, insts \ {i})

\* Variant: the count written depends on the date of the call.
Document_PerDate(date, instance_id, query_data, created_at) ==
    [date |-> date, instance_id |-> instance_id, created_at |-> created_at,
     digest_query |-> query_data.digest_query,
     execution_count |-> query_data.execution_count + date - 1]

Document(date, instance_id, query_data, created_at) ==
    [date |-> date, instance_id |-> instance_id, created_at |-> created_at,
     digest_query |-> query_data.digest_query,
     execution_count |-> query_data.execution_count]

filter_doc(document) ==
    [date |-> document.date, instance_id |-> document.instance_id,
     digest_query |-> document.digest_query]

Matches(coll, f) ==
    { d \in BagToSet(coll) : /\ d.date = f.date
                             /\ d.instance_id = f.instance_id
                             /\ d.digest_query = f.digest_query }

\* collection.update_one(filter_doc, {"$set": document}, upsert=True): the
\* fields of document replace those of a matching stored document; without a
\* match the document is inserted.
update_one_Accumulate(coll, f, document) ==
    IF Matches(coll, f) = {}
    THEN coll (+) SetToBag({document})
    ELSE LET d == CHOOSE d \in Matches(coll, f) : TRUE
         IN  (coll (-) SetToBag({d}))
             (+) SetToBag({[document EXCEPT
                              !.execution_count = d.execution_count + @]})

\* Only the count of document reaches a matching stored document.
update_one_CountOnly(coll, f, document) ==
    IF Matches(coll, f) = {}
    THEN coll (+) SetToBag({document})
    ELSE LET d == CHOOSE d \in Matches(coll, f) : TRUE
         IN  (coll (-) SetToBag({d}))
             (+) SetToBag({[d EXCEPT !.execution_count = document.execution_count]})

update_one(coll, f, document) ==
    IF Matches(coll, f) = {}
    THEN coll (+) SetToBag({document})
    ELSE LET d == CHOOSE d \in Matches(coll, f) : TRUE
         IN  (coll (-) SetToBag({d}))
             (+) SetToBag({[fld \in DOMAIN d \cup DOMAIN document |->
                              IF fld \in DOMAIN document THEN document[fld] ELSE d[fld]]})

\* collect_metrics_by_range calls _save_metrics(instances_data, target_date):
\* it awaits MongoDBConnector.get_database.
SaveCall ==
    /\ save_pc \in {"idle", "done"}
    /\ save_run < MaxRuns
    /\ save_run' = save_run + 1
    /\ save_pc' = "get_database"
    /\ acked' = {}
    /\ overwritten' = {}
    /\ skipped' = {}
    /\ save_raised' = {}
    /\ UNCHANGED <<instances_data, digest_collection, save_todo, current_date, range_pc>>
    /\ UNCHANGED <<monVars, histVars, apiVars, fetchVars, restVars>>

\* The loops move on to the next query_data, or the call returns.
NextDocument(rest) ==
    /\ save_todo' = rest
    /\ save_pc' = IF rest = <<>> THEN "done" ELSE "update_one"

GetDatabaseDone ==
    /\ save_pc = "get_database"
    /\ NextDocument(WorkOf(instances_data, DOMAIN instances_data))
    /\ UNCHANGED <<instances_data, digest_collection, save_run, acked, overwritten,
                   current_date, range_pc, skipped, save_raised>>
    /\ UNCHANGED <<monVars, histVars, apiVars, fetchVars, restVars>>

\* get_database raised: logged and re-raised; nothing was written.
GetDatabaseFailed ==
    /\ save_pc = "get_database"
    /\ save_pc' = "done"
    /\ save_raised' = save_raised \cup {current_date}
    /\ UNCHANGED <<instances_data, digest_collection, save_run, save_todo, acked,
                   overwritten, current_date, range_pc, skipped>>
    /\ UNCHANGED <<monVars, histVars, apiVars, fetchVars, restVars>>

UpdateOneDone ==
    /\ save_pc = "update_one"
    /\ LET document == Document(current_date, Head(save_todo)[1], Head(save_todo)[2],
                                save_run) IN
       /\ digest_collection' = update_one(digest_collection, filter_doc(document), document)
       /\ acked' = acked \cup {filter_doc(document)}
       /\ overwritten' = IF Matches(digest_collection, filter_doc(document)) = {}
                         THEN overwritten
                         ELSE overwritten \cup {filter_doc(document)}
    /\ NextDocument(Tail(save_todo))
    /\ UNCHANGED <<instances_data, save_run, current_date, range_pc, skipped, save_raised>>
    /\ UNCHANGED <<monVars, histVars, apiVars, fetchVars, restVars>>

\* The exception of update_one leaves the loops: the call ends at this document.
UpdateOneFailed_Abort ==
    /\ save_pc = "update_one"
    /\ LET document == Document(current_date, Head(save_todo)[1], Head(save_todo)[2],
                                save_run) IN
       /\ \E applied \in BOOLEAN :
             digest_collection' =
                IF applied
                THEN update_one(digest_collection, filter_doc(document), document)
                ELSE digest_collection
       /\ skipped' = skipped \cup {filter_doc(document)}
    /\ NextDocument(<<>>)
    /\ UNCHANGED <<instances_data, save_run, acked, overwritten, current_date, range_pc,
                   save_raised>>
    /\ UNCHANGED <<monVars, histVars, apiVars, fetchVars, restVars>>

\* update_one raised, before the server applied it or after: logged, continue.
UpdateOneFailed ==
    /\ save_pc = "update_one"
    /\ LET document == Document(current_date, Head(save_todo)[1], Head(save_todo)[2],
                                save_run) IN
       /\ \E applied \in BOOLEAN :
             digest_collection' =
                IF applied
                THEN update_one(digest_collection, filter_doc(document), document)
                ELSE digest_collection
       /\ skipped' = skipped \cup {filter_doc(document)}
    /\ NextDocument(Tail(save_todo))
    /\ UNCHANGED <<instances_data, save_run, acked, overwritten, current_date, range_pc,
                   save_raised>>
    /\ UNCHANGED <<monVars, histVars, apiVars, fetchVars, restVars>>

\* ------------------------------------------------------------------------
\* Specification of repeated saves of one aggregate for one date
\* ------------------------------------------------------------------------
InitSave ==
    /\ InitService
    /\ InitFetchIdle
    /\ InitRestIdle
    /\ instances_data \in InstancesData
    /\ digest_collection = EmptyBag
    /\ save_pc = "idle"
    /\ save_run = 0
    /\ save_todo = <<>>
    /\ acked = {}
    /\ overwritten = {}
    /\ current_date = TargetDate
    /\ range_pc = "idle"
    /\ skipped = {}
    /\ save_raised = {}

NextSave ==
    \/ SaveCall
    \/ GetDatabaseDone
    \/ GetDatabaseFailed
    \/ UpdateOneDone
    \/ UpdateOneFailed

SpecSave == InitSave /\ [][NextSave]_vars

\* ------------------------------------------------------------------------
\* Claims about the save
\* ------------------------------------------------------------------------

\* C10: however often the aggregate is saved for the date, the collection
\* holds at most one document per (date, instance_id, digest_query), and a
\* document written by the current call carries this call's values: its
\* created_at and the aggregate's execution_count, not a sum over the calls.
C10_IdempotentRerun ==
    /\ \A d \in BagToSet(digest_collection) :
          SumCopies(Matches(digest_collection, filter_doc(d)), digest_collection) = 1
    /\ \A f \in acked :
          \E k \in DOMAIN instances_data[f.instance_id] :
              LET query_data == instances_data[f.instance_id][k] IN
              /\ query_data.digest_query = f.digest_query
              /\ Matches(digest_collection, f) =
                    {Document(f.date, f.instance_id, query_data, save_run)}

\* C10 witness: the second save of an aggregate of four digests is complete;
\* each of its writes found the document of the first save, and the four
\* documents carry the second save's created_at and the counts of the
\* aggregate.
C10_Witness ==
    /\ save_run = 2
    /\ save_pc = "done"
    /\ Cardinality(acked) = 4
    /\ overwritten = acked
    /\ BagCardinality(digest_collection) = 4
    /\ \A d \in BagToSet(digest_collection) : d.created_at = 2 /\ d.execution_count = 2

\* ------------------------------------------------------------------------
\* The CloudWatch collector: the date loop of collect_metrics_by_range
\*
\* One _save_metrics call per date of the range, each with the same aggregate;
\* the calls are numbered from 1, so that the call of date d has created_at d.
\* acked, skipped and save_raised accumulate over the dates.
\* ------------------------------------------------------------------------

\* The aggregates of the range: one or two query_data in all.
RangeData ==
    { data \in InstancesData : Len(WorkOf(data, DOMAIN data)) <= 2 }

Work == WorkOf(instances_data, DOMAIN instances_data)

\* What an earlier collection of the same range left in the collection: a
\* document per date and digest, with its own created_at and count.
StoredBefore(data) ==
    SetToBag({ Document(date, w[1], [w[2] EXCEPT !.execution_count = 3], 0) :
                  date \in 1..total_days, w \in Range(WorkOf(data, DOMAIN data)) })

\* while current_date <= end_date: await self._save_metrics(...)
SaveDate ==
    /\ range_pc = "loop"
    /\ current_date <= total_days
    /\ range_pc' = "save"
    /\ save_pc' = "get_database"
    /\ save_run' = save_run + 1
    /\ UNCHANGED <<instances_data, digest_collection, save_todo, acked, overwritten,
                   current_date, skipped, save_raised>>
    /\ UNCHANGED <<monVars, histVars, apiVars, fetchVars, restVars>>

\* _save_metrics returned or raised; the callback was awaited in the try or in
\* the except branch; current_date += timedelta(days=1). After the last date
\* the collection returns.
DateSaved ==
    /\ range_pc = "save"
    /\ save_pc = "done"
    /\ current_date' = current_date + 1
    /\ save_pc' = "idle"
    /\ range_pc' = IF current_date + 1 > total_days THEN "returned" ELSE "loop"
    /\ UNCHANGED <<instances_data, digest_collection, save_run, save_todo, acked,
                   overwritten, skipped, save_raised>>
    /\ UNCHANGED <<monVars, histVars, apiVars, fetchVars, restVars>>

\* The task is cancelled at one of its awaits, or the callback raises in the
\* except branch: neither is caught by the loop, and no further statement of
\* the collection runs. An update_one in flight was applied by the server or
\* was not.
CancelRange ==
    /\ range_pc \in {"loop", "save"}
    /\ range_pc' = "cancelled"
    /\ save_pc' = "cancelled"
    /\ IF save_pc = "update_one"
       THEN LET document == Document(current_date, Head(save_todo)[1],
                                     Head(save_todo)[2], save_run) IN
            \E applied \in BOOLEAN :
               digest_collection' =
                  IF applied
                  THEN update_one(digest_collection, filter_doc(document), document)
                  ELSE digest_collection
       ELSE UNCHANGED digest_collection
    /\ UNCHANGED <<instances_data, save_run, save_todo, acked, overwritten, current_date,
                   skipped, save_raised>>
    /\ UNCHANGED <<monVars, histVars, apiVars, fetchVars, restVars>>

\* ------------------------------------------------------------------------
\* Specification of one range collection from its first save on
\* ------------------------------------------------------------------------
InitRange ==
    /\ InitService
    /\ InitFetchIdle
    /\ InitRestIdle
    /\ instances_data \in RangeData
    /\ digest_collection \in {EmptyBag, StoredBefore(instances_data)}
    /\ save_pc = "idle"
    /\ save_run = 0
    /\ save_todo = <<>>
    /\ acked = {}
    /\ overwritten = {}
    /\ current_date = 1
    /\ range_pc = "loop"
    /\ skipped = {}
    /\ save_raised = {}

NextRange ==
    \/ SaveDate
    \/ GetDatabaseDone
    \/ GetDatabaseFailed
    \/ UpdateOneDone
    \/ UpdateOneFailed
    \/ DateSaved
    \/ CancelRange

SpecRange == InitRange /\ [][NextRange]_vars

\* ------------------------------------------------------------------------
\* Claims about failures and cancellation in the date loop
\* ------------------------------------------------------------------------
KeyOf(date, w) == filter_doc(Document(date, w[1], w[2], date))

\* C29: an update_one that raises costs its own document only. Every key whose
\* update_one returned holds the complete document of its date's call; of
\* every date the loop has left whose call reached the collection, each
\* document was written or is the one whose update_one raised; and the
\* collection returns only after the last date.
C29_FailureSkipsOneDocument ==
    /\ \A f \in acked :
          \E w \in Range(Work) :
              /\ f = KeyOf(f.date, w)
              /\ Matches(digest_collection, f) = {Document(f.date, w[1], w[2], f.date)}
    /\ acked \cap skipped = {}
    /\ \A date \in 1..total_days :
          (date < current_date /\ date \notin save_raised)
             => \A w \in Range(Work) : KeyOf(date, w) \in acked \cup skipped
    /\ range_pc = "returned" => current_date = total_days + 1

\* C29 witness: the collection returned; the update_one of the first document
\* of the first date raised without effect, and the other document of that
\* date and both documents of the next date were written.
C29_Witness ==
    /\ range_pc = "returned"
    /\ Len(Work) = 2
    /\ skipped = {KeyOf(1, Work[1])}
    /\ Matches(digest_collection, KeyOf(1, Work[1])) = {}
    /\ acked = {KeyOf(1, Work[2])} \cup { KeyOf(2, w) : w \in Range(Work) }

\* C30: whenever the collection stops, and at every moment before, each stored
\* document is a document the earlier collection left, unchanged, or the
\* complete document of one call of this collection; there is one document
\* per key; the documents whose update_one returned are still there; and no
\* date after the one the collection stopped at was written.
C30_WholeDocumentsOnly ==
    /\ \A d \in BagToSet(digest_collection) :
          /\ SumCopies(Matches(digest_collection, filter_doc(d)), digest_collection) = 1
          /\ \/ d \in BagToSet(StoredBefore(instances_data))
             \/ /\ d.date <= current_date
                /\ d.date <= save_run
                /\ \E w \in Range(Work) : d = Document(d.date, w[1], w[2], d.date)
    /\ range_pc = "cancelled" =>
          \A f \in acked :
              \E w \in Range(Work) :
                  Matches(digest_collection, f) = {Document(f.date, w[1], w[2], f.date)}

\* C30 witness: the collection was cancelled during the second update_one of
\* the first date, which the server applied; the first document is the one
\* that was acknowledged, and the documents of the second date are those the
\* earlier collection left.
C30_Witness ==
    /\ range_pc = "cancelled"
    /\ current_date = 1
    /\ Len(Work) = 2
    /\ acked = {KeyOf(1, Work[1])}
    /\ Matches(digest_collection, KeyOf(1, Work[2])) =
          {Document(1, Work[2][1], Work[2][2], 1)}
    /\ \A w \in Range(Work) :
          Matches(digest_collection, KeyOf(2, w)) =
             {Document(2, w[1], [w[2] EXCEPT !.execution_count = 3], 0)}

\* ------------------------------------------------------------------------
\* The CloudWatch collector: _normalize_query
\*
\* A string is a sequence of characters. The alphabet has one character of
\* every class the three substitutions and the split tell apart: the two
\* quotes, a digit, a letter (a word character that is no digit), a blank
\* (whitespace) and the placeholder itself (neither word character nor
\* whitespace).
\* ------------------------------------------------------------------------
Chars == {"'", "\"", "1", "2", "a", " ", "?"}
IsDigit(c) == c \in {"1", "2"}
IsWord(c) == IsDigit(c) \/ c = "a"
IsSpace(c) == c \in {" ", "\n"}

Strings(n) == UNION { [1..k -> Chars] : k \in 0..n }

\* re.sub(r"'[^']*'", "?", query) and re.sub(r'"[^"]*"', "?", query): from the
\* left, a quote and everything up to the next quote of its kind become one
\* placeholder; a quote with no partner stays.
\* (The alphabet has two digits so that a literal has more than one value.)
RECURSIVE sub_quoted_FirstOnly(_, _)
sub_quoted_FirstOnly(str, q) ==
    IF str = <<>> THEN <<>>
    ELSE IF Head(str) = q /\ \E j \in 2..Len(str) : str[j] = q
         THEN LET j == CHOOSE j \in 2..Len(str) :
                           str[j] = q /\ \A k \in 2..(j - 1) : str[k] # q
              IN  <<"?">> \o SubSeq(str, j + 1, Len(str))
         ELSE <<Head(str)>> \o sub_quoted_FirstOnly(Tail(str), q)

RECURSIVE sub_quoted(_, _)
sub_quoted(str, q) ==
    IF str = <<>> THEN <<>>
    ELSE IF Head(str) = q /\ \E j \in 2..Len(str) : str[j] = q
         THEN LET j == CHOOSE j \in 2..Len(str) :
                           str[j] = q /\ \A k \in 2..(j - 1) : str[k] # q
              IN  <<"?">> \o sub_quoted(SubSeq(str, j + 1, Len(str)), q)
         ELSE <<Head(str)>> \o sub_quoted(Tail(str), q)

\* The end of the run of digits that starts at position i.
RECURSIVE DigitRunEnd(_, _)
DigitRunEnd(str, i) ==
    IF i < Len(str) /\ IsDigit(str[i + 1]) THEN DigitRunEnd(str, i + 1) ELSE i

\* \b\d+\b matches at i: a digit with no word character before it, whose run
\* of digits has no word character after it.
NumberAt(str, i) ==
    /\ IsDigit(str[i])
    /\ i = 1 \/ ~IsWord(str[i - 1])
    /\ DigitRunEnd(str, i) = Len(str) \/ ~IsWord(str[DigitRunEnd(str, i) + 1])

\* re.sub(r'\b\d+\b', "?", query), scanning from position i.
RECURSIVE sub_numbers_from(_, _)
sub_numbers_from(str, i) ==
    IF i > Len(str) THEN <<>>
    ELSE IF NumberAt(str, i)
         THEN <<"?">> \o sub_numbers_from(str, DigitRunEnd(str, i) + 1)
         ELSE <<str[i]>> \o sub_numbers_from(str, i + 1)

sub_numbers_Keep(str) == str

sub_numbers(str) == sub_numbers_from(str, 1)

\* query.split(): the maximal runs of characters that are not whitespace.
RECURSIVE split(_)
split(str) ==
    IF str = <<>> THEN <<>>
    ELSE IF IsSpace(Head(str)) THEN split(Tail(str))
    ELSE LET n == CHOOSE n \in 1..Len(str) :
                     /\ \A k \in 1..n : ~IsSpace(str[k])
                     /\ n = Len(str) \/ IsSpace(str[n + 1])
         IN  <<SubSeq(str, 1, n)>> \o split(SubSeq(str, n + 1, Len(str)))

\* " ".join(words)
RECURSIVE join(_)
join(words) ==
    IF words = <<>> THEN <<>>
    ELSE IF Len(words) = 1 THEN Head(words)
    ELSE Head(words) \o <<" ">> \o join(Tail(words))

normalize_query(str) ==
    join(split(sub_numbers(sub_quoted(sub_quoted(str, "'"), "\""))))

\* ------------------------------------------------------------------------
\* The CloudWatch collector: _analyze_slow_queries
\*
\* An event is what _query_pattern finds in its message: nothing, or the
\* named groups. Times are whole numbers of a fixed unit; avg_time is kept as
\* the exact quotient total_time / execution_count, a pair compared by cross
\* multiplication.
\* ------------------------------------------------------------------------
excluded_users == { <<"r", "d", "s", "a", "d", "m", "i", "n">>,
                    <<"e", "v", "e", "n", "t", "_", "s", "c", "h", "e", "d", "u", "l", "e", "r">> }

\* str.lower() on the letters the user names are written with.
lower_char(c) == IF c = "R" THEN "r" ELSE IF c = "A" THEN "a" ELSE c
lower(str) == [i \in 1..Len(str) |-> lower_char(str[i])]

\* x in str
Contains(str, x) ==
    \E i \in 1..(Len(str) - Len(x) + 1) : SubSeq(str, i, i + Len(x) - 1) = x

IsExcluded(user) == \E x \in excluded_users : Contains(lower(user), x)

\* str.strip()
RECURSIVE lstrip(_)
lstrip(str) ==
    IF str # <<>> /\ IsSpace(Head(str)) THEN lstrip(Tail(str)) ELSE str

RECURSIVE rstrip(_)
rstrip(str) ==
    IF str # <<>> /\ IsSpace(str[Len(str)])
    THEN rstrip(SubSeq(str, 1, Len(str) - 1)) ELSE str

strip(str) == rstrip(lstrip(str))

NoMatch == [matched |-> FALSE]

GroupDict(user, host, q, query_time, timestamp) ==
    [matched |-> TRUE, user |-> user, host |-> host, query |-> q,
     query_time |-> query_time, lock_time |-> 0, rows_sent |-> 1,
     rows_examined |-> 1, timestamp |-> timestamp]

\* The position of a digest in query_stats (a dict, kept in insertion order),
\* 0 when it is not a key.
IndexOf(query_stats, digest) ==
    IF \E i \in 1..Len(query_stats) : query_stats[i].digest_query = digest
    THEN CHOOSE i \in 1..Len(query_stats) : query_stats[i].digest_query = digest
    ELSE 0

NewStats(digest) ==
    [digest_query |-> digest, example_queries |-> {}, execution_count |-> 0,
     total_time |-> 0, lock_time |-> 0, rows_sent |-> 0, rows_examined |-> 0,
     users |-> {}, hosts |-> {}, first_seen |-> NullTime, last_seen |-> NullTime]

UpdateStats_InOrder(stats, data) ==
    [stats EXCEPT
        !.execution_count = @ + 1,
        !.total_time = @ + data.query_time,
        !.lock_time = @ + data.lock_time,
        !.rows_sent = @ + data.rows_sent,
        !.rows_examined = @ + data.rows_examined,
        !.users = @ \cup {data.user},
        !.hosts = @ \cup {data.host},
        !.example_queries = IF Cardinality(@) < 10
                            THEN @ \cup {strip(data.query)} ELSE @,
        !.first_seen = IF @ = NullTime THEN data.timestamp ELSE @,
        !.last_seen = data.timestamp]

UpdateStats_CapAfter(stats, data) ==
    [stats EXCEPT
        !.execution_count = @ + 1,
        !.total_time = @ + data.query_time,
        !.lock_time = @ + data.lock_time,
        !.rows_sent = @ + data.rows_sent,
        !.rows_examined = @ + data.rows_examined,
        !.users = @ \cup {data.user},
        !.hosts = @ \cup {data.host},
        !.example_queries = IF Cardinality(@) <= 10
                            THEN @ \cup {strip(data.query)} ELSE @,
        !.first_seen = IF @ = NullTime \/ data.timestamp < @
                       THEN data.timestamp ELSE @,
        !.last_seen = IF @ = NullTime \/ data.timestamp > @
                      THEN data.timestamp ELSE @]

\* Lines 225-241: one event folded into the entry of its digest.
UpdateStats(stats, data) ==
    [stats EXCEPT
        !.execution_count = @ + 1,
        !.total_time = @ + data.query_time,
        !.lock_time = @ + data.lock_time,
        !.rows_sent = @ + data.rows_sent,
        !.rows_examined = @ + data.rows_examined,
        !.users = @ \cup {data.user},
        !.hosts = @ \cup {data.host},
        !.example_queries = IF Cardinality(@) < 10
                            THEN @ \cup {strip(data.query)} ELSE @,
        !.first_seen = IF @ = NullTime \/ data.timestamp < @
                       THEN data.timestamp ELSE @,
        !.last_seen = IF @ = NullTime \/ data.timestamp > @
                      THEN data.timestamp ELSE @]

FoldLog_NoExclusion(query_stats, log) ==
    IF ~log.matched THEN query_stats
    ELSE LET normalized_query == normalize_query(log.query)
             i == IndexOf(query_stats, normalized_query)
         IN  IF i = 0
             THEN Append(query_stats, UpdateStats(NewStats(normalized_query), log))
             ELSE [query_stats EXCEPT ![i] = UpdateStats(@, log)]

\* One iteration of the loop of lines 198-241.
FoldLog(query_stats, log) ==
    IF ~log.matched THEN query_stats
    ELSE IF IsExcluded(log.user) THEN query_stats
    ELSE LET normalized_query == normalize_query(log.query)
             i == IndexOf(query_stats, normalized_query)
         IN  IF i = 0
             THEN Append(query_stats, UpdateStats(NewStats(normalized_query), log))
             ELSE [query_stats EXCEPT ![i] = UpdateStats(@, log)]

RECURSIVE FoldLogs(_, _)
FoldLogs(query_stats, ls) ==
    IF ls = <<>> THEN query_stats
    ELSE FoldLogs(FoldLog(query_stats, Head(ls)), Tail(ls))

\* list(a_set): the elements in the iteration order of the set, which for a
\* set of strings follows their hashes (randomized per process): any order.
list_of(S) == { q \in [1..Cardinality(S) -> S] : Range(q) = S }

\* Lines 253-266: the record returned for one entry of query_stats, examples
\* being what list(stats['example_queries']) gave.
ResultOf(stats, examples) ==
    [digest_query |-> stats.digest_query,
     example_queries |-> examples,
     execution_count |-> stats.execution_count,
     avg_time |-> <<stats.total_time, stats.execution_count>>,
     total_time |-> stats.total_time,
     avg_lock_time |-> <<stats.lock_time, stats.execution_count>>,
     avg_rows_sent |-> <<stats.rows_sent, stats.execution_count>>,
     avg_rows_examined |-> <<stats.rows_examined, stats.execution_count>>,
     users |-> stats.users,
     hosts |-> stats.hosts,
     first_seen |-> stats.first_seen,
     last_seen |-> stats.last_seen]

\* a / b <= c / d for positive b and d.
QuotientLeq(x, y) == x[1] * y[2] <= y[1] * x[2]
QuotientLess(x, y) == x[1] * y[2] < y[1] * x[2]

\* sorted(results, key=avg_time, reverse=True): a stable sort, equal keys
\* keep the order they came in.
RECURSIVE InsertByAvgTimeDesc(_, _)
InsertByAvgTimeDesc(sorted, r) ==
    IF sorted = <<>> THEN <<r>>
    ELSE IF QuotientLess(Head(sorted).avg_time, r.avg_time)
         THEN <<r>> \o sorted
         ELSE <<Head(sorted)>> \o InsertByAvgTimeDesc(Tail(sorted), r)

RECURSIVE SortByAvgTimeDesc(_)
SortByAvgTimeDesc(rs) ==
    IF rs = <<>> THEN <<>>
    ELSE InsertByAvgTimeDesc(SortByAvgTimeDesc(SubSeq(rs, 1, Len(rs) - 1)), rs[Len(rs)])

sorted_results_Unsorted(rs) == rs

sorted_results(rs) == SortByAvgTimeDesc(rs)

\* The lists the entries' example sets can be turned into, entry by entry.
ExampleLists(query_stats) ==
    { f \in [1..Len(query_stats) ->
                UNION { list_of(query_stats[i].example_queries) : i \in 1..Len(query_stats) }] :
        \A i \in 1..Len(query_stats) : f[i] \in list_of(query_stats[i].example_queries) }

\* The lists analyze can return for the events ls: one for every order the
\* example sets can be listed in.
analyze_slow_queries(ls) ==
    LET query_stats == FoldLogs(<<>>, ls)
    IN  { sorted_results([i \in 1..Len(query_stats) |-> ResultOf(query_stats[i], f[i])]) :
            f \in ExampleLists(query_stats) }

\* ------------------------------------------------------------------------
\* Specification of _normalize_query: every string of at most MaxLen
\* characters, paired with itself or with a string that differs from it in
\* the value of one standalone numeric literal.
\* ------------------------------------------------------------------------
Literals == { <<"1">>, <<"2">>, <<"1", "2">> }

\* The strings that differ from str in the value of one standalone number.
Variants(str) ==
    { SubSeq(str, 1, i - 1) \o lit \o SubSeq(str, DigitRunEnd(str, i) + 1, Len(str)) :
        <<i, lit>> \in { <<i, lit>> \in (1..Len(str)) \X Literals :
                            /\ NumberAt(str, i)
                            /\ lit # SubSeq(str, i, DigitRunEnd(str, i)) } }

AppUser == <<"a", "p", "p">>
AdminUser == <<"R", "d", "s", "A", "d", "m", "i", "n">>

InitNormalize ==
    /\ InitService
    /\ InitFetchIdle
    /\ InitSaveIdle
    /\ InitAggIdle
    /\ InitSqlIdle
    /\ InitWsIdle
    /\ InitStatIdle
    /\ InitExampleIdle
    /\ InitLaterIdle
    /\ norm_pc = "input"
    /\ query \in Strings(MaxLen)
    /\ other_query \in {query} \cup Variants(query)
    /\ normalized = <<>>
    /\ renormalized = <<>>
    /\ other_normalized = <<>>
    /\ folded = <<>>

Normalize ==
    /\ norm_pc = "input"
    /\ normalized' = normalize_query(query)
    /\ other_normalized' = normalize_query(other_query)
    /\ norm_pc' = "once"
    /\ UNCHANGED <<query, other_query, renormalized, folded>>
    /\ UNCHANGED exceptNorm

NormalizeAgain ==
    /\ norm_pc = "once"
    /\ renormalized' = normalize_query(normalized)
    /\ norm_pc' = "twice"
    /\ UNCHANGED <<query, other_query, normalized, other_normalized, folded>>
    /\ UNCHANGED exceptNorm

\* _analyze_slow_queries of one event with each of the two strings as its body.
AnalyzePair ==
    /\ norm_pc = "twice"
    /\ folded' \in analyze_slow_queries(<<GroupDict(AppUser, "h1", query, 1, 1),
                                        GroupDict(AppUser, "h1", other_query, 2, 2)>>)
    /\ norm_pc' = "folded"
    /\ UNCHANGED <<query, other_query, normalized, renormalized, other_normalized>>
    /\ UNCHANGED exceptNorm

NextNormalize ==
    \/ Normalize
    \/ NormalizeAgain
    \/ AnalyzePair

SpecNormalize == InitNormalize /\ [][NextNormalize]_vars

\* C12: normalising a normalised string changes nothing: for every string,
\* _normalize_query(_normalize_query(s)) = _normalize_query(s).
C12_NormalizeIdempotent ==
    norm_pc \in {"twice", "folded"} => renormalized = normalized

\* A string in which a quoted literal and a number were replaced and blanks
\* were collapsed, normalised twice.
C12_Witness ==
    /\ norm_pc = "twice"
    /\ \E i \in 1..Len(query) : query[i] = "'"
    /\ \E i \in 1..Len(query) : NumberAt(query, i)
    /\ Len(split(query)) > 1
    /\ normalized # query
    /\ \E i \in 1..Len(normalized) : normalized[i] = "?"
    /\ ~\E i \in 1..Len(query) : query[i] = "?"

\* C13: two query strings that differ only in the value of one standalone
\* numeric literal have the same digest, and the events that carry them are
\* counted in one and the same record.
C13_NumericLiteralSameDigest ==
    (norm_pc = "folded" /\ other_query \in Variants(query))
        => /\ other_normalized = normalized
           /\ Len(folded) = 1
           /\ folded[1].digest_query = normalized
           /\ folded[1].execution_count = 2

\* Two strings that differ in a number outside every quoted literal, folded.
C13_Witness ==
    /\ norm_pc = "folded"
    /\ other_query \in Variants(query)
    /\ ~\E i \in 1..Len(query) : query[i] \in {"'", "\""}
    /\ \E i \in 1..Len(query) : query[i] = "a"
    /\ Len(folded) = 1
    /\ Range(folded[1].example_queries) = {strip(query), strip(other_query)}

\* ------------------------------------------------------------------------
\* Specification of _analyze_slow_queries: every list of at most MaxLogs
\* events.
\* ------------------------------------------------------------------------
RawQueries == { <<"a", "?", "1">>, <<"a", "?", "2">>, <<"a">> }
QueryTimes == {1, 2, 4}
SetTimestamps == {1, 2}

LogEvents ==
    {NoMatch} \cup {GroupDict(AdminUser, "h2", <<"a">>, 1, 1)}
        \cup { GroupDict(AppUser, "h1", q, t, ts) :
                 <<q, t, ts>> \in RawQueries \X QueryTimes \X SetTimestamps }

InitAggregate ==
    /\ InitService
    /\ InitFetchIdle
    /\ InitSaveIdle
    /\ InitNormIdle
    /\ InitSqlIdle
    /\ InitWsIdle
    /\ InitStatIdle
    /\ InitExampleIdle
    /\ InitLaterIdle
    /\ agg_pc = "input"
    /\ logs \in UNION { [1..n -> LogEvents] : n \in 0..MaxLogs }
    /\ results = <<>>

Analyze ==
    /\ agg_pc = "input"
    /\ results' \in analyze_slow_queries(logs)
    /\ agg_pc' = "done"
    /\ UNCHANGED logs
    /\ UNCHANGED exceptAgg

NextAggregate == Analyze

SpecAggregate == InitAggregate /\ [][NextAggregate]_vars

\* C11: the records _analyze_slow_queries returns are in descending order of
\* avg_time: of two neighbours the earlier has the greater or equal avg_time.
C11_SortedByAvgTimeDesc ==
    agg_pc = "done" =>
        \A i \in 1..(Len(results) - 1) :
            QuotientLeq(results[i + 1].avg_time, results[i].avg_time)

\* Two digests returned, the one folded first having the smaller avg_time and
\* the other an avg_time that is no whole number.
C11_Witness ==
    /\ agg_pc = "done"
    /\ Len(results) = 2
    /\ logs[1].matched /\ ~IsExcluded(logs[1].user)
    /\ normalize_query(logs[1].query) = results[2].digest_query
    /\ QuotientLess(results[2].avg_time, results[1].avg_time)
    /\ results[1].execution_count = 2
    /\ results[1].total_time % 2 = 1

\* ------------------------------------------------------------------------
\* SQLStatisticsCalculator: _clean_query and the predicates _is_read_query,
\* _is_write_query, _is_ddl_query, _is_commit_query
\* ------------------------------------------------------------------------

\* sub in str
\* (Contains, defined above)

\* str.find(sub) for a sub that occurs, as a position counted from 1.
find(str, sub) ==
    CHOOSE i \in 1..(Len(str) - Len(sub) + 1) :
        /\ SubSeq(str, i, i + Len(sub) - 1) = sub
        /\ \A k \in 1..(i - 1) : SubSeq(str, k, k + Len(sub) - 1) # sub

BlockOpen == <<"/", "*">>
BlockClose == <<"*", "/">>
LineComment == <<"-", "-">>

\* The guard of the loop of line 23.
HasBlock(str) == Contains(str, BlockOpen) /\ Contains(str, BlockClose)

\* Lines 24-27: query[:start] + query[end:], stripped. start is the position
\* of the first opener and end the position after the first closer, wherever
\* the two lie relative to each other.
StripBlock(str) ==
    LET start == find(str, BlockOpen) - 1
        end == (find(str, BlockClose) - 1) + 2
    IN  strip(SubSeq(str, 1, start) \o SubSeq(str, end + 1, Len(str)))

\* str.splitlines() of a text with no line break at its end.
RECURSIVE splitlines(_)
splitlines(str) ==
    IF str = <<>> THEN <<>>
    ELSE IF \E i \in 1..Len(str) : str[i] = "\n"
         THEN LET i == CHOOSE i \in 1..Len(str) :
                           str[i] = "\n" /\ \A k \in 1..(i - 1) : str[k] # "\n"
              IN  IF i = Len(str) THEN <<SubSeq(str, 1, i - 1)>>
                  ELSE <<SubSeq(str, 1, i - 1)>> \o splitlines(SubSeq(str, i + 1, Len(str)))
         ELSE <<str>>

\* line.split('--')[0].strip()
BeforeLineComment(line) ==
    strip(IF Contains(line, LineComment)
          THEN SubSeq(line, 1, find(line, LineComment) - 1) ELSE line)

\* '\n'.join(lines)
RECURSIVE join_lines(_)
join_lines(lines) ==
    IF lines = <<>> THEN <<>>
    ELSE IF Len(lines) = 1 THEN Head(lines)
    ELSE Head(lines) \o <<"\n">> \o join_lines(Tail(lines))

\* Lines 30-33.
StripLineComments(str) ==
    LET lines == splitlines(str)
    IN  strip(join_lines([i \in 1..Len(lines) |-> BeforeLineComment(lines[i])]))

\* str.upper() on the lower-case letters the texts are written with.
upper_char(c) ==
    IF c = "s" THEN "S" ELSE IF c = "e" THEN "E" ELSE IF c = "l" THEN "L"
    ELSE IF c = "c" THEN "C" ELSE IF c = "t" THEN "T" ELSE c
upper(str) == [i \in 1..Len(str) |-> upper_char(str[i])]

startswith(str, prefix) ==
    Len(str) >= Len(prefix) /\ SubSeq(str, 1, Len(prefix)) = prefix

ReadKeywords ==
    { <<"S", "E", "L", "E", "C", "T">>,
      <<"S", "H", "O", "W">>,
      <<"D", "E", "S", "C", "R", "I", "B", "E">>,
      <<"E", "X", "P", "L", "A", "I", "N">> }

WriteKeywords ==
    { <<"I", "N", "S", "E", "R", "T">>,
      <<"U", "P", "D", "A", "T", "E">>,
      <<"D", "E", "L", "E", "T", "E">>,
      <<"R", "E", "P", "L", "A", "C", "E">>,
      <<"U", "P", "S", "E", "R", "T">> }

DdlKeywords ==
    { <<"C", "R", "E", "A", "T", "E">>,
      <<"A", "L", "T", "E", "R">>,
      <<"D", "R", "O", "P">>,
      <<"T", "R", "U", "N", "C", "A", "T", "E">>,
      <<"R", "E", "N", "A", "M", "E">> }

CommitKeywords ==
    { <<"C", "O", "M", "M", "I", "T">>,
      <<"R", "O", "L", "L", "B", "A", "C", "K">>,
      <<"B", "E", "G", "I", "N">>,
      <<"S", "T", "A", "R", "T", " ", "T", "R", "A", "N", "S", "A", "C", "T", "I", "O", "N">> }

\* The predicates, applied to what _clean_query returned.
is_query_of_Raw(raw, cleaned_query, keywords) ==
    raw # <<>> /\ \E k \in keywords : startswith(upper(raw), k)

\* Variant: any leading keyword will do, whatever its class.
is_query_of_AnyClass(raw, cleaned_query, keywords) ==
    cleaned_query # <<>> /\ \E k \in ReadKeywords \cup WriteKeywords \cup DdlKeywords
                                     \cup CommitKeywords :
                                startswith(upper(cleaned_query), k)

is_query_of(raw, cleaned_query, keywords) ==
    cleaned_query # <<>> /\ \E k \in keywords : startswith(upper(cleaned_query), k)

is_read_query(raw, cleaned_query) == is_query_of(raw, cleaned_query, ReadKeywords)
is_write_query(raw, cleaned_query) == is_query_of(raw, cleaned_query, WriteKeywords)
is_ddl_query(raw, cleaned_query) == is_query_of(raw, cleaned_query, DdlKeywords)
is_commit_query(raw, cleaned_query) == is_query_of(raw, cleaned_query, CommitKeywords)

\* The classes a text is counted in (lines 101-104).
ClassesOf(raw, cleaned_query) ==
    (IF is_read_query(raw, cleaned_query) THEN {"read"} ELSE {})
        \cup (IF is_write_query(raw, cleaned_query) THEN {"write"} ELSE {})
        \cup (IF is_ddl_query(raw, cleaned_query) THEN {"ddl"} ELSE {})
        \cup (IF is_commit_query(raw, cleaned_query) THEN {"transaction"} ELSE {})

\* ------------------------------------------------------------------------
\* Specification of the classification: texts put together from at most
\* MaxFragments pieces, and the texts of the scenario.
\* ------------------------------------------------------------------------
Fragments ==
    { BlockOpen, BlockClose, LineComment, <<"\n">>, <<" ">>, <<"x">>,
      <<"C", "O", "M", "M", "I", "T">>, <<"s", "e", "l", "e", "c", "t">>,
      <<"S", "T", "A", "R", "T">>, <<"T", "R", "A", "N", "S", "A", "C", "T", "I", "O", "N">> }

RECURSIVE Texts(_)
Texts(n) ==
    IF n = 0 THEN {<<>>}
    ELSE LET shorter == Texts(n - 1)
         IN  shorter \cup { t \o f : <<t, f>> \in shorter \X Fragments }

HintCommit == <<"/", "*", " ", "h", "i", "n", "t", " ", "*", "/", " ", "C", "O", "M", "M", "I", "T">>
NoteSelect == <<"-", "-", " ", "n", "o", "t", "e", "\n", "S", "E", "L", "E", "C", "T", " ", "1">>

InitClassify ==
    /\ InitService
    /\ InitFetchIdle
    /\ InitSaveIdle
    /\ InitNormIdle
    /\ InitAggIdle
    /\ InitWsIdle
    /\ InitStatIdle
    /\ InitExampleIdle
    /\ InitLaterIdle
    /\ sql_pc = "blocks"
    /\ sql_raw \in Texts(MaxFragments) \cup {HintCommit, NoteSelect}
    /\ sql_query = strip(sql_raw)
    /\ sql_strips = 0
    /\ sql_class = {}

\* One iteration of the loop of lines 23-27.
StripBlockStep ==
    /\ sql_pc = "blocks"
    /\ HasBlock(sql_query)
    /\ sql_strips < MaxStrips
    /\ sql_query' = StripBlock(sql_query)
    /\ sql_strips' = sql_strips + 1
    /\ UNCHANGED <<sql_pc, sql_raw, sql_class>>
    /\ UNCHANGED exceptSql

\* The loop is left, the line comments are cut and the predicates answer.
CleanReturn ==
    /\ sql_pc = "blocks"
    /\ ~HasBlock(sql_query)
    /\ sql_query' = StripLineComments(sql_query)
    /\ sql_class' = ClassesOf(sql_raw, sql_query')
    /\ sql_pc' = "done"
    /\ UNCHANGED <<sql_raw, sql_strips>>
    /\ UNCHANGED exceptSql

NextClassify ==
    \/ StripBlockStep
    \/ CleanReturn

SpecClassify == InitClassify /\ [][NextClassify]_vars

IsLetter(c) == c \notin {"/", "*", "-", "\n", " ", "1"}

\* The text begins with the keyword, and the keyword ends there.
KeywordLeads(str, k) ==
    /\ startswith(upper(str), k)
    /\ Len(str) = Len(k) \/ ~IsLetter(str[Len(k) + 1])

KeywordClasses ==
    { <<"read", ReadKeywords>>, <<"write", WriteKeywords>>,
      <<"ddl", DdlKeywords>>, <<"transaction", CommitKeywords>> }

\* C14: the comments are removed before anything is matched (the cleaned
\* text is trimmed, holds no line comment and no complete block comment); a
\* cleaned text led by a keyword is in the class of that keyword and in no
\* other; '/* hint */ COMMIT' is a transaction statement, a SELECT after a
\* line comment is a read, and a text that is empty after cleaning is in no
\* class.
C14_ClassifyAfterCleaning ==
    sql_pc = "done" =>
        /\ ~Contains(sql_query, LineComment)
        /\ ~HasBlock(sql_query)
        /\ strip(sql_query) = sql_query
        /\ \A kc \in KeywordClasses : \A k \in kc[2] :
               KeywordLeads(sql_query, k) => sql_class = {kc[1]}
        /\ sql_query = <<>> => sql_class = {}
        /\ sql_raw = HintCommit => sql_class = {"transaction"}
        /\ sql_raw = NoteSelect => sql_class = {"read"}

\* The hinted COMMIT, cleaned in one iteration of the loop and classified.
C14_Witness ==
    /\ sql_pc = "done"
    /\ sql_raw = HintCommit
    /\ sql_strips = 1
    /\ sql_query = <<"C", "O", "M", "M", "I", "T">>
    /\ sql_class = {"transaction"}

\* ------------------------------------------------------------------------
\* WebSocketManager (one collection_id) and the batch collection run:
\* run_last_month_collection, run_collection, progress_callback
\*
\* update_status and broadcast_log run without a break up to the first
\* send_json of _broadcast. _broadcast iterates over the set object
\* _connections[collection_id] and awaits one send_json per element; a connect
\* or disconnect that runs during such an await changes the set object, and
\* the iterator then raises RuntimeError the next time it is advanced if the
\* size of the set differs from the size it had when the iteration began.
\* ------------------------------------------------------------------------
PublishStages == {"started", "in_progress", "completed", "error"}

\* Where the caller goes on when update_status and broadcast_log returned.
NormalNext(stage) ==
    CASE stage = "started" -> "queued"
      [] stage = "in_progress" -> "collect"
      [] stage = "completed" -> "returned"
      [] stage = "error" -> "raised"

\* Where the caller goes on when update_status or broadcast_log raised:
\* the handler fails (lines 132-134), the handlers of
\* collect_metrics_by_range take over, the except clause of line 216
\* publishes "error", the exception leaves run_collection.
ExcNext(stage) ==
    CASE stage = "started" -> "rejected"
      [] stage = "in_progress" -> "collect"
      [] stage = "completed" -> "error"
      [] stage = "error" -> "raised"

\* _broadcast begins: the iterator is created and the first send awaited.
StartBroadcast(conns, phase) ==
    { [sending |-> w, orig |-> conns, set |-> conns, visited |-> {w},
       detached |-> FALSE, dead |-> {}, phase |-> phase] : w \in conns }

\* Line 97, with the variant that records only what is broadcast.
RecordedStatus_IfListening(status, old, conns) == IF conns = {} THEN old ELSE status

RecordedStatus(status, old, conns) == status

\* The caller arrives at a stage. At a publishing stage update_status runs:
\* the status is recorded (line 97) and, if the collection_id has
\* connections, broadcast; with no connection update_status and the
\* broadcast_log after it return at once.
Arrive(stage, pub, st, dr, uh, conns) ==
    IF stage \in PublishStages
    THEN IF conns = {}
         THEN { [pc |-> NormalNext(stage), published |-> Append(pub, stage),
                 status |-> RecordedStatus(stage, st, conns), dropped |-> FALSE,
                 unheard |-> TRUE, bc |-> NoBroadcast] }
         ELSE { [pc |-> stage, published |-> Append(pub, stage),
                 status |-> RecordedStatus(stage, st, conns), dropped |-> FALSE,
                 unheard |-> FALSE, bc |-> b] : b \in StartBroadcast(conns, "status") }
    ELSE { [pc |-> stage, published |-> pub, status |-> st, dropped |-> dr,
            unheard |-> uh, bc |-> NoBroadcast] }

GoTo(stage) ==
    \E r \in Arrive(stage, published, collection_status, status_dropped, unheard,
                    connections) :
        /\ run_pc' = r.pc
        /\ published' = r.published
        /\ collection_status' = r.status
        /\ status_dropped' = r.dropped
        /\ unheard' = r.unheard
        /\ bc' = r.bc

\* connect: accept, register, and send the recorded status if there is one.
\* The send may fail; the endpoint then disconnects.
connect(w) ==
    /\ ws_state[w] = "new"
    /\ connections' = connections \cup {w}
    /\ bc' = IF bc.sending # 0 /\ ~bc.detached
             THEN [bc EXCEPT !.set = @ \cup {w}] ELSE bc
    /\ \E sent \in (IF collection_status = NoStatus THEN {TRUE} ELSE BOOLEAN) :
          /\ ws_state' = [ws_state EXCEPT ![w] = IF sent THEN "open" ELSE "broken"]
          /\ received' = [received EXCEPT ![w] =
                             IF sent /\ collection_status # NoStatus
                             THEN @ \cup {collection_status} ELSE @]
          /\ on_connect' = [on_connect EXCEPT ![w] =
                             [got |-> IF sent THEN collection_status ELSE "lost",
                              latest |-> IF published = <<>> THEN NoStatus
                                         ELSE published[Len(published)],
                              dropped |-> status_dropped,
                              unheard |-> unheard]]
    /\ UNCHANGED <<collection_status, run_pc, progress_count, published, status_dropped,
                   unheard>>
    /\ UNCHANGED <<mongo_client, exceptWs>>

\* disconnect, called by the endpoint when receive_text raised or the send of
\* connect failed: the websocket is discarded, and with the last one the key
\* and the recorded status go.
disconnect(w) ==
    /\ ws_state[w] \in {"open", "broken"}
    /\ ws_state' = [ws_state EXCEPT ![w] = "closed"]
    /\ connections' = connections \ {w}
    /\ IF connections # {} /\ connections' = {}
       THEN /\ collection_status' = NoStatus
            /\ status_dropped' = (status_dropped \/ collection_status # NoStatus)
            /\ bc' = IF bc.sending # 0 /\ ~bc.detached
                     THEN [bc EXCEPT !.set = @ \ {w}, !.detached = TRUE] ELSE bc
       ELSE /\ UNCHANGED <<collection_status, status_dropped>>
            /\ bc' = IF bc.sending # 0 /\ ~bc.detached
                     THEN [bc EXCEPT !.set = @ \ {w}] ELSE bc
    /\ UNCHANGED <<received, on_connect, run_pc, progress_count, published, unheard>>
    /\ UNCHANGED <<mongo_client, exceptWs>>

\* The end of _broadcast (lines 143-145): disconnect of every dead
\* connection, then the caller goes on: after update_status with
\* broadcast_log, after broadcast_log with its next stage.
BroadcastReturn(dead) ==
    LET conns == connections \ dead
        popped == connections # {} /\ dead # {} /\ conns = {}
        st == IF popped THEN NoStatus ELSE collection_status
        dr == IF popped THEN (status_dropped \/ collection_status # NoStatus)
              ELSE status_dropped
    IN  /\ connections' = conns
        /\ IF bc.phase = "status" /\ conns # {}
           THEN /\ bc' \in StartBroadcast(conns, "log")
                /\ collection_status' = st
                /\ status_dropped' = dr
                /\ UNCHANGED <<run_pc, published, unheard>>
           ELSE \E r \in Arrive(NormalNext(run_pc), published, st, dr, unheard, conns) :
                    /\ run_pc' = r.pc
                    /\ published' = r.published
                    /\ collection_status' = r.status
                    /\ status_dropped' = r.dropped
                    /\ unheard' = r.unheard
                    /\ bc' = r.bc

\* One send_json of _broadcast is over (it returned, or it raised and the
\* connection is dead), and the iterator is advanced.
SendOver(w, ok) ==
    /\ bc.sending = w
    /\ received' = [received EXCEPT ![w] =
                       IF ok THEN @ \cup {IF bc.phase = "status" THEN run_pc ELSE "log"}
                       ELSE @]
    /\ LET dead == IF ok THEN bc.dead ELSE bc.dead \cup {w}
           rest == bc.set \ bc.visited
       IN  IF Cardinality(bc.set) # Cardinality(bc.orig)
           THEN \* RuntimeError: Set changed size during iteration
                /\ GoTo(ExcNext(run_pc))
                /\ UNCHANGED connections
           ELSE \/ /\ rest # {}
                   /\ \E n \in rest :
                         bc' = [bc EXCEPT !.sending = n, !.visited = @ \cup {n},
                                          !.dead = dead]
                   /\ UNCHANGED <<connections, collection_status, run_pc, published,
                                  status_dropped, unheard>>
                \/ /\ rest = {} \/ bc.set # bc.orig
                   /\ BroadcastReturn(dead)
    /\ mongo_client' = IF run_pc' \in {"rejected", "returned", "raised"}
                       THEN FALSE ELSE mongo_client
    /\ UNCHANGED <<ws_state, on_connect, progress_count>>
    /\ UNCHANGED exceptWs

SendDone(w) == SendOver(w, TRUE)

SendFailed(w) == SendOver(w, FALSE)

\* run_last_month_collection up to the response: the connection is opened,
\* the instances are read, "started" is published and the background task is
\* added (lines 61-110).
StartCollection ==
    /\ run_pc = "idle"
    /\ GoTo("started")
    /\ mongo_client' = (run_pc' # "rejected")
    /\ UNCHANGED <<connections, ws_state, received, on_connect, progress_count>>
    /\ UNCHANGED exceptWs

\* The handler has returned its response and closed the connection (lines
\* 112-128); the background task starts with MongoDBConnector.initialize
\* (line 143).
RunInitialize ==
    /\ run_pc = "queued"
    /\ run_pc' = "db"
    /\ mongo_client' = TRUE
    /\ UNCHANGED <<connections, collection_status, ws_state, received, on_connect,
                   progress_count, bc, published, status_dropped, unheard>>
    /\ UNCHANGED exceptWs

\* initialize or get_database raises (lines 143-145): the outer except clause
\* logs and re-raises, the finally clause closes.
RunInitializeFailed ==
    /\ run_pc \in {"queued", "db"}
    /\ run_pc' = "raised"
    /\ mongo_client' = FALSE
    /\ UNCHANGED <<connections, collection_status, ws_state, received, on_connect,
                   progress_count, bc, published, status_dropped, unheard>>
    /\ UNCHANGED exceptWs

\* get_database returns and collector.initialize returns (lines 145-179).
CollectorInitialized ==
    /\ run_pc = "db"
    /\ run_pc' = "collect"
    /\ UNCHANGED <<connections, collection_status, ws_state, received, on_connect,
                   progress_count, bc, published, status_dropped, unheard>>
    /\ UNCHANGED <<mongo_client, exceptWs>>

\* collector.initialize raises: the except clause of line 216.
CollectorInitializeFailed ==
    /\ run_pc = "db"
    /\ GoTo("error")
    /\ mongo_client' = IF run_pc' = "raised" THEN FALSE ELSE mongo_client
    /\ UNCHANGED <<connections, ws_state, received, on_connect, progress_count>>
    /\ UNCHANGED exceptWs

\* collect_metrics_by_range calls progress_callback (lines 153-175).
progress_callback ==
    /\ run_pc = "collect"
    /\ progress_count < MaxProgress
    /\ progress_count' = progress_count + 1
    /\ GoTo("in_progress")
    /\ UNCHANGED <<connections, ws_state, received, on_connect>>
    /\ UNCHANGED <<mongo_client, exceptWs>>

\* collect_metrics_by_range returns (lines 187-214) or raises (line 216).
CollectOver(raised) ==
    /\ run_pc = "collect"
    /\ GoTo(IF raised THEN "error" ELSE "completed")
    /\ mongo_client' = IF run_pc' \in {"returned", "raised"} THEN FALSE ELSE mongo_client
    /\ UNCHANGED <<connections, ws_state, received, on_connect, progress_count>>
    /\ UNCHANGED exceptWs

CollectReturned == CollectOver(FALSE)

CollectRaised == CollectOver(TRUE)

InitRun ==
    /\ InitService
    /\ InitFetchIdle
    /\ InitSaveIdle
    /\ InitNormIdle
    /\ InitAggIdle
    /\ InitSqlIdle
    /\ InitWsIdle
    /\ InitStatIdle
    /\ InitExampleIdle
    /\ InitLaterIdle

NextRun ==
    \/ \E w \in Sockets : connect(w)
    \/ \E w \in Sockets : disconnect(w)
    \/ \E w \in Sockets : SendDone(w)
    \/ \E w \in Sockets : SendFailed(w)
    \/ StartCollection
    \/ RunInitialize
    \/ RunInitializeFailed
    \/ CollectorInitialized
    \/ CollectorInitializeFailed
    \/ progress_callback
    \/ CollectReturned
    \/ CollectRaised

SpecRun == InitRun /\ [][NextRun]_vars

Terminal == {"completed", "error"}

\* The statuses published so far are a beginning of
\* started, in_progress ..., terminal.
LifecyclePrefix(pub) ==
    \A i \in 1..Len(pub) :
        /\ i = 1 <=> pub[i] = "started"
        /\ pub[i] \in Terminal => i = Len(pub)

\* C15: the statuses published for one run are "started", then "in_progress"
\* any number of times, then one terminal status, "completed" or "error", and
\* nothing after it; a run that is over has published its terminal status.
C15_StatusLifecycle ==
    /\ LifecyclePrefix(published)
    /\ run_pc \in {"returned", "raised"} =>
           /\ published # <<>>
           /\ published[Len(published)] \in Terminal

\* The statement of C16 as it stands: the latest status was handed to
\* update_status while the collection_id had no connection, and a websocket
\* whose connect succeeded afterwards was sent it.
C16_LaterListenerReceivesLatest ==
    \A w \in Sockets :
        (ws_state[w] = "open" /\ on_connect[w].unheard)
            => on_connect[w].got = on_connect[w].latest

\* update_status called while the collection_id has no connection: the status
\* is recorded, no send is begun, and the caller goes on as after a
\* successful call (the broadcast_log that follows included).
UpdateWithoutListeners ==
    (connections = {} /\ published' # published) =>
        /\ collection_status' = published'[Len(published')]
        /\ bc' = NoBroadcast
        /\ run_pc' = NormalNext(published'[Len(published')])

\* C16: update_status and broadcast_log for a collection_id without
\* connections return without error and send nothing, and update_status
\* records the status; a websocket that connects is sent the latest status,
\* unless the last connection was removed after that status was recorded
\* (the removal of the last connection discards the recorded status).
C16_SafeWithoutListeners ==
    /\ [](\A w \in Sockets :
             ws_state[w] = "open" =>
                 on_connect[w].got = IF on_connect[w].dropped THEN NoStatus
                                     ELSE on_connect[w].latest)
    /\ [][UpdateWithoutListeners]_vars

\* The first websocket connects after two statuses were published to nobody
\* and is sent the second.
C16_Witness ==
    /\ \E w \in Sockets :
          /\ ws_state[w] = "open"
          /\ ws_state[3 - w] = "new"
          /\ on_connect[w].unheard
          /\ on_connect[w].got = "in_progress"
          /\ received[w] = {"in_progress"}
    /\ published = <<"started", "in_progress">>

\* ------------------------------------------------------------------------
\* SQLStatisticsCalculator.calculate_monthly_statistics
\*
\* A digest document carries its instance, its date (month and day) and its
\* digest text. Documents come into the source collection by the batch
\* collection and leave it only from outside the program.
\* ------------------------------------------------------------------------
Months == {"2024-01", "2024-02"}

\* {"$substr": ["$date", 0, 7]}
MonthOf(date) == date[1]

SelectText == <<"s", "e", "l", "e", "c", "t">>
CommitText == <<"C", "O", "M", "M", "I", "T">>

Digest(instance_id, date, digest_query) ==
    [instance_id |-> instance_id, date |-> date, digest_query |-> digest_query]

SourceDocuments ==
    { Digest("db1", <<"2024-01", 1>>, SelectText),
      Digest("db1", <<"2024-01", 2>>, CommitText),
      Digest("db2", <<"2024-01", 1>>, SelectText),
      Digest("db1", <<"2024-02", 1>>, SelectText) }

\* _clean_query as a function, for texts on which its loop ends.
RECURSIVE StripBlocks(_)
StripBlocks(str) == IF HasBlock(str) THEN StripBlocks(StripBlock(str)) ELSE str

clean_query(str) == StripLineComments(StripBlocks(strip(str)))

\* sum(1 for q in queries if predicate(q))
CountOf(docs, keywords) ==
    Cardinality({ d \in docs :
                    is_query_of(d.digest_query, clean_query(d.digest_query), keywords) })

\* Lines 73-122: $match on the month, $group by instance and month, one row
\* per group.
MonthlyRows(src, ym, created_at) ==
    LET matched == { d \in src : MonthOf(d.date) = ym }
        groups == { <<d.instance_id, MonthOf(d.date)>> : d \in matched }
        docsOf(g) == { d \in matched : d.instance_id = g[1] /\ MonthOf(d.date) = g[2] }
    IN  { [instance_id |-> g[1],
           month |-> g[2],
           unique_digest_count |-> Cardinality({ d.digest_query : d \in docsOf(g) }),
           total_slow_query_count |-> Cardinality(docsOf(g)),
           read_query_count |-> CountOf(docsOf(g), ReadKeywords),
           write_query_count |-> CountOf(docsOf(g), WriteKeywords),
           ddl_query_count |-> CountOf(docsOf(g), DdlKeywords),
           commit_query_count |-> CountOf(docsOf(g), CommitKeywords),
           created_at |-> created_at] : g \in groups }

\* delete_many({"month": year_month})
delete_many(coll, ym) == { r \in coll : r.month # ym }

insert_many(coll, rows) == coll \cup rows

\* A request POST /sql/statistics/calculate/{year_month}.
calculate_monthly_statistics(ym) ==
    /\ calc_pc \in {"idle", "returned", "raised"}
    /\ calc_run < MaxCalcs
    /\ calc_run' = calc_run + 1
    /\ year_month' = ym
    /\ calc_results' = {}
    /\ calc_pc' = "aggregate"
    /\ UNCHANGED <<source_collection, stats_collection>>
    /\ UNCHANGED exceptStat

\* The aggregation is read to its end (lines 94-122); with rows the call goes
\* on to delete_many, without rows it logs a warning and returns (lines
\* 125-133).
AggregateDone ==
    /\ calc_pc = "aggregate"
    /\ calc_results' = MonthlyRows(source_collection, year_month, calc_run)
    /\ calc_pc' = IF calc_results' # {} THEN "delete_many" ELSE "returned"
    /\ UNCHANGED <<source_collection, stats_collection, year_month, calc_run>>
    /\ UNCHANGED exceptStat

DeleteManyDone ==
    /\ calc_pc = "delete_many"
    /\ stats_collection' = delete_many(stats_collection, year_month)
    /\ calc_pc' = "insert_many"
    /\ UNCHANGED <<source_collection, year_month, calc_results, calc_run>>
    /\ UNCHANGED exceptStat

InsertManyDone ==
    /\ calc_pc = "insert_many"
    /\ stats_collection' = insert_many(stats_collection, calc_results)
    /\ calc_pc' = "returned"
    /\ UNCHANGED <<source_collection, year_month, calc_results, calc_run>>
    /\ UNCHANGED exceptStat

\* get_database, the aggregation, delete_many or insert_many raises: the
\* except clause logs and re-raises (lines 135-137).
CalcFailed ==
    /\ calc_pc \in {"aggregate", "delete_many", "insert_many"}
    /\ calc_pc' = "raised"
    /\ UNCHANGED <<source_collection, stats_collection, year_month, calc_results, calc_run>>
    /\ UNCHANGED exceptStat

\* Between two calls the batch collection saves a digest document, or a
\* document is removed from the source collection from outside.
SourceChanged ==
    /\ calc_pc \in {"idle", "returned", "raised"}
    /\ \E d \in SourceDocuments :
          source_collection' = IF d \in source_collection
                               THEN source_collection \ {d}
                               ELSE source_collection \cup {d}
    /\ calc_pc' = "idle"
    /\ UNCHANGED <<stats_collection, year_month, calc_results, calc_run>>
    /\ UNCHANGED exceptStat

InitStats ==
    /\ InitService
    /\ InitFetchIdle
    /\ InitSaveIdle
    /\ InitNormIdle
    /\ InitAggIdle
    /\ InitSqlIdle
    /\ InitWsIdle
    /\ InitExampleIdle
    /\ InitLaterIdle
    /\ source_collection \in SUBSET SourceDocuments
    /\ stats_collection = {}
    /\ calc_pc = "idle"
    /\ year_month = ""
    /\ calc_results = {}
    /\ calc_run = 0

NextStats ==
    \/ \E ym \in Months : calculate_monthly_statistics(ym)
    \/ AggregateDone
    \/ DeleteManyDone
    \/ InsertManyDone
    \/ CalcFailed
    \/ SourceChanged

SpecStats == InitStats /\ [][NextStats]_vars

\* C17: when calculate_monthly_statistics(m) has returned, the rows of month
\* m in the statistics collection are exactly the rows this call computed;
\* no row of an earlier calculation for m is left, also when this call
\* computed no rows.
C17_ReplaceByMonth ==
    calc_pc = "returned" =>
        { r \in stats_collection : r.month = year_month } = calc_results

\* ------------------------------------------------------------------------
\* The tracker's cache entries: start estimate and peak duration
\* (checked under SpecTracker)
\* ------------------------------------------------------------------------
\* The pid gets an entry in this step, keeps its entry through this step.
Created(m, pid) ==
    pid \notin DOMAIN pid_time_cache[m] /\ pid \in DOMAIN pid_time_cache'[m]
Kept(m, pid) ==
    pid \in DOMAIN pid_time_cache[m] /\ pid \in DOMAIN pid_time_cache'[m]

\* C18: when an entry is created its start is now minus the elapsed seconds
\* of the row that created it.
C18_StartFromElapsed ==
    [][\A m \in MonitorIds : \A pid \in TrackerPids :
          Created(m, pid) =>
              pid_time_cache'[m][pid].start = now - pid_time_cache'[m][pid].details.time]_vars

\* C19: max_time of an entry is the running maximum of the elapsed values
\* folded into it: it starts as the elapsed of the creating row, never
\* decreases while the entry is cached, and after a row was folded it is the
\* greater of its old value and the row's elapsed, also when that is smaller.
C19_PeakIsRunningMaximum ==
    /\ [](\A m \in MonitorIds : \A pid \in DOMAIN pid_time_cache[m] :
             pid_time_cache[m][pid].max_time >= pid_time_cache[m][pid].details.time)
    /\ [][\A m \in MonitorIds : \A pid \in TrackerPids :
             /\ Created(m, pid) =>
                    pid_time_cache'[m][pid].max_time = pid_time_cache'[m][pid].details.time
             /\ Kept(m, pid) =>
                    /\ pid_time_cache'[m][pid].max_time >= pid_time_cache[m][pid].max_time
                    /\ pid_time_cache'[m][pid].max_time \in
                           {pid_time_cache[m][pid].max_time,
                            pid_time_cache'[m][pid].details.time}]_vars

\* An entry whose last folded row reported less than its peak, the peak being
\* the greatest elapsed of the rows folded into it.
C19_Witness ==
    \E pid \in DOMAIN pid_time_cache[M1] :
        /\ track[M1][pid] = "clean"
        /\ Len(streak[M1][pid]) >= 2
        /\ pid_time_cache[M1][pid].details.time < pid_time_cache[M1][pid].max_time
        /\ pid_time_cache[M1][pid].max_time = SeqMax(streak[M1][pid])

\* C20: the start of an entry is written when the entry is created and never
\* again: a row folded into a cached entry leaves it unchanged, the details
\* carry it, and the record built at finalization has it.
C20_StartWrittenOnce ==
    /\ [](\A m \in MonitorIds :
             /\ \A pid \in DOMAIN pid_time_cache[m] :
                    pid_time_cache[m][pid].details.start = pid_time_cache[m][pid].start
             /\ pc[m] \in {"find_one", "insert_one"} =>
                    /\ data_to_insert[m].pid \in DOMAIN pid_time_cache[m]
                    /\ data_to_insert[m].start =
                           pid_time_cache[m][data_to_insert[m].pid].start)
    /\ [][\A m \in MonitorIds : \A pid \in TrackerPids :
             Kept(m, pid) => pid_time_cache'[m][pid].start = pid_time_cache[m][pid].start]_vars

\* A record is being persisted for an entry that was observed in two cycles,
\* the second later than the one that fixed its start.
C20_Witness ==
    /\ pc[M1] = "find_one"
    /\ Len(streak[M1][data_to_insert[M1].pid]) >= 2
    /\ data_to_insert[M1].start < now - EXEC_TIME - 1

\* ------------------------------------------------------------------------
\* The cycles of one tracker (checked under SpecTracker)
\* ------------------------------------------------------------------------
\* The step is a cycle of monitor m whose processlist query returned rows and
\* whose handle_finished_queries had a MongoDB client.
CycleRan(m) ==
    /\ pc[m] = "query"
    /\ pc'[m] \in {"sleep", "find_one"}
    /\ last_query'[m] = "ok"
    /\ mongo_client'

\* The pids handle_finished_queries of monitor m is finalizing or will finalize
\* in the cycle in progress.
Finalizing(m) ==
    todo[m] \cup (IF pc[m] \in {"find_one", "insert_one"} THEN {data_to_insert[m].pid} ELSE {})

\* C21: a cached pid for which the cycle's query returned a row that is not
\* above the threshold (the history moves its track from "clean" to "other")
\* is in current_pids: the cycle does not finalize it and keeps its entry.
C21_PresentPidIsKept ==
    [][\A m \in MonitorIds : \A pid \in TrackerPids :
          (CycleRan(m) /\ track[m][pid] = "clean" /\ track'[m][pid] = "other") =>
              /\ pid \notin Finalizing(m)'
              /\ pid \in DOMAIN pid_time_cache'[m]]_vars

\* C22: the processlist query of a cycle is issued only from the top of the
\* loop, when the cycle before it has returned: no pid of it is left to
\* finalize and no finalization write is in flight; while rows are awaited or
\* the loop sleeps nothing of a cycle is pending, and a cycle that is writing
\* goes on to its next write or to the sleep, never to a query.
C22_CyclesSequential ==
    /\ [](\A m \in MonitorIds :
             pc[m] \in {"query", "sleep", "launched", "stopped"} => Finalizing(m) = {})
    /\ [][\A m \in MonitorIds :
             /\ (pc[m] # "query" /\ pc'[m] = "query") =>
                    /\ pc[m] \in {"launched", "sleep"}
                    /\ Finalizing(m) = {}
             /\ pc[m] \in {"find_one", "insert_one"} =>
                    pc'[m] \in {"find_one", "insert_one", "sleep"}]_vars

\* A query is being awaited after a cycle that wrote a finalization.
C22_Witness ==
    /\ pc[M1] = "query"
    /\ now > 0
    /\ collection # EmptyBag
    /\ finalized # {}

\* ------------------------------------------------------------------------
\* Claims about the paging and the batches of the fetch
\* ------------------------------------------------------------------------
\* C23: the paging of every stream ends whatever the pages are. A
\* process_stream that requests a page has been served fewer than batch_size
\* pages, each with at least one event and fewer than batch_size events in
\* all; a page after which it requests another one has added an event; a
\* stream that has returned requests nothing more; and what a stream
\* accumulates stays below twice the cap. So a stream makes at most batch_size
\* requests.
C23_PagingBounded ==
    /\ [](\A s \in Streams :
             /\ stream_pc[s] = "request" =>
                    /\ next_token[s] < batch_size
                    /\ next_token[s] <= Len(stream_events[s])
                    /\ Len(stream_events[s]) < batch_size
             /\ Len(stream_events[s]) < 2 * batch_size)
    /\ [][\A s \in Streams :
             /\ (stream_pc[s] = "request" /\ stream_pc'[s] = "request"
                     /\ next_token'[s] # next_token[s]) =>
                    /\ next_token'[s] = next_token[s] + 1
                    /\ Len(stream_events'[s]) > Len(stream_events[s])
             /\ stream_pc[s] = "done" =>
                    /\ stream_pc'[s] = "done"
                    /\ stream_events'[s] = stream_events[s]]_vars

\* A stream was served a page that took it from below the cap to the most it
\* can hold, and its paging ended there.
C23_Witness ==
    /\ fetch_pc = "done"
    /\ \E s \in Streams : Len(stream_events[s]) = 2 * batch_size - 1

\* The streams whose process_stream awaits a get_log_events call.
InFlight == { s \in Streams : stream_pc[s] = "request" }

\* C24: at most max_concurrent_streams stream fetches are in flight, all of
\* them streams of the current batch; every stream of an earlier batch has
\* completed and no stream of a later batch has been started.
C24_BoundedConcurrency ==
    /\ Cardinality(InFlight) <= max_concurrent_streams
    /\ fetch_pc = "gather" =>
          \A k \in DOMAIN log_streams :
              /\ k < batch_start => stream_pc[log_streams[k]] = "done"
              /\ k >= batch_start + max_concurrent_streams =>
                     stream_pc[log_streams[k]] = "idle"
              /\ log_streams[k] \in InFlight =>
                     /\ k >= batch_start
                     /\ k < batch_start + max_concurrent_streams
    /\ fetch_pc # "gather" => InFlight = {}

\* The second batch is in flight after a first batch that was full and in
\* which one stream completed with an error.
C24_Witness ==
    /\ fetch_pc = "gather"
    /\ batch_start = 1 + max_concurrent_streams
    /\ InFlight # {}
    /\ \E k \in 1..max_concurrent_streams : failed[log_streams[k]]
    /\ \E k \in 1..max_concurrent_streams : ~failed[log_streams[k]]

\* ------------------------------------------------------------------------
\* Claims about the records of _analyze_slow_queries (checked under
\* SpecAggregate)
\* ------------------------------------------------------------------------
\* The events of logs that are folded: matched and not of an excluded user;
\* those among them of one digest.
Counted == { i \in DOMAIN logs : logs[i].matched /\ ~IsExcluded(logs[i].user) }
CountedOf(digest) == { i \in Counted : normalize_query(logs[i].query) = digest }

RECURSIVE SumExecutionCount(_)
SumExecutionCount(rs) ==
    IF rs = <<>> THEN 0 ELSE Head(rs).execution_count + SumExecutionCount(Tail(rs))

FirstSeenAt(digest, example) ==
    CHOOSE i \in CountedOf(digest) :
        /\ strip(logs[i].query) = example
        /\ \A j \in CountedOf(digest) : strip(logs[j].query) = example => i <= j

\* C27: example_queries lists the examples in the order of their first
\* occurrence in the event list.
C27_ExamplesInFirstSeenOrder ==
    agg_pc = "done" =>
        \A k \in DOMAIN results :
            \A a, b \in DOMAIN results[k].example_queries :
                a < b => FirstSeenAt(results[k].digest_query, results[k].example_queries[a])
                           < FirstSeenAt(results[k].digest_query, results[k].example_queries[b])

\* C28: first_seen is the least and last_seen the greatest 'SET timestamp'
\* value of the events folded into the digest, in whatever order they come.
C28_SeenRange ==
    agg_pc = "done" =>
        \A k \in DOMAIN results :
            LET stamps == { logs[i].timestamp : i \in CountedOf(results[k].digest_query) }
            IN  /\ results[k].first_seen \in stamps
                /\ results[k].last_seen \in stamps
                /\ \A t \in stamps : results[k].first_seen <= t /\ t <= results[k].last_seen
                /\ results[k].first_seen <= results[k].last_seen

\* A digest whose events come with the later timestamp first.
C28_Witness ==
    /\ agg_pc = "done"
    /\ \E k \in DOMAIN results :
          /\ results[k].first_seen = 1
          /\ results[k].last_seen = 2
          /\ \E i, j \in CountedOf(results[k].digest_query) :
                i < j /\ logs[i].timestamp = 2 /\ logs[j].timestamp = 1

\* ------------------------------------------------------------------------
\* Specification of the loop of _analyze_slow_queries, event by event: up to
\* MaxFolds events whose bodies are numbers, all of one digest, twelve of them
\* pairwise distinct and one that differs from another by surrounding blanks.
\* ------------------------------------------------------------------------
ExampleBodies ==
    [1..2 -> {"1", "2"}] \cup [1..3 -> {"1", "2"}] \cup { <<" ", "1", "1", " ">> }

\* One listing of a set, and the listings followed at the return: that one
\* and its reverse.
RECURSIVE SetToSeq(_)
SetToSeq(S) ==
    IF S = {} THEN <<>>
    ELSE LET x == CHOOSE x \in S : TRUE IN <<x>> \o SetToSeq(S \ {x})

Reverse(q) == [k \in 1..Len(q) |-> q[Len(q) + 1 - k]]

Listings(S) == { SetToSeq(S), Reverse(SetToSeq(S)) }

InitExamples ==
    /\ InitService
    /\ InitFetchIdle
    /\ InitSaveIdle
    /\ InitNormIdle
    /\ InitAggIdle
    /\ InitSqlIdle
    /\ InitWsIdle
    /\ InitStatIdle
    /\ InitLaterIdle
    /\ example_pc = "folding"
    /\ stats_by_digest = <<>>
    /\ seen_bodies = {}
    /\ example_results = <<>>

\* One iteration of the for loop over logs.
FoldEvent ==
    /\ example_pc = "folding"
    /\ \A i \in DOMAIN stats_by_digest : stats_by_digest[i].execution_count < MaxFolds
    /\ \E body \in ExampleBodies :
        /\ stats_by_digest' = FoldLog(stats_by_digest, GroupDict(AppUser, "h1", body, 1, 1))
        /\ seen_bodies' = seen_bodies \cup {strip(body)}
    /\ UNCHANGED <<example_pc, example_results>>
    /\ UNCHANGED exceptExample

\* The loop is over: the records are built and returned.
ReturnRecords ==
    /\ example_pc = "folding"
    /\ stats_by_digest # <<>>
    /\ \E examples \in Listings(stats_by_digest[1].example_queries) :
        example_results' = sorted_results(<<ResultOf(stats_by_digest[1], examples)>>)
    /\ example_pc' = "done"
    /\ UNCHANGED <<stats_by_digest, seen_bodies>>
    /\ UNCHANGED exceptExample

NextExamples ==
    \/ FoldEvent
    \/ ReturnRecords

SpecExamples == InitExamples /\ [][NextExamples]_vars

\* C26: the examples of a digest are at most 10, each the trimmed body of an
\* event folded into it, and as many as there were distinct bodies up to 10;
\* the record lists each of them once.
C26_ExamplesBounded ==
    /\ \A i \in DOMAIN stats_by_digest :
          /\ Cardinality(stats_by_digest[i].example_queries) <= 10
          /\ stats_by_digest[i].example_queries \subseteq seen_bodies
          /\ \A x \in stats_by_digest[i].example_queries :
                strip(x) = x /\ normalize_query(x) = stats_by_digest[i].digest_query
          /\ Cardinality(stats_by_digest[i].example_queries) =
                Min2(10, Cardinality(seen_bodies))
    /\ example_pc = "done" =>
          \A k \in DOMAIN example_results :
              /\ Len(example_results[k].example_queries) <= 10
              /\ \A a, b \in DOMAIN example_results[k].example_queries :
                    example_results[k].example_queries[a] =
                        example_results[k].example_queries[b] => a = b
              /\ Range(example_results[k].example_queries) = stats_by_digest[k].example_queries

\* Twelve events with more than ten distinct bodies were folded: the record
\* lists ten of them.
C26_Witness ==
    /\ example_pc = "done"
    /\ Cardinality(seen_bodies) > 10
    /\ example_results[1].execution_count = 12
    /\ Len(example_results[1].example_queries) = 10

\* ------------------------------------------------------------------------
\* Specification of restarts of the monitor API: start and stop requests in
\* any order and a second monitoring task. The monitors' own cycles are left
\* out: a task ends by cancellation or because no monitor could be started.
\* ------------------------------------------------------------------------
NextRestart ==
    \/ \E t \in Tasks : start_monitoring(t)
    \/ stop_monitoring
    \/ \E t \in Tasks : StopReturn(t)
    \/ \E t \in Tasks : TaskStart(t)
    \/ \E t \in Tasks : MongoInitDone(t)
    \/ \E t \in Tasks : MongoInitFailed(t)
    \/ \E t \in Tasks : LoadDone(t)
    \/ \E t \in Tasks : CreatePoolDone(t)
    \/ \E t \in Tasks : CreatePoolFailed(t)
    \/ \E t \in Tasks : InitializeDone(t)
    \/ \E t \in Tasks : InitializeFailed(t)
    \/ \E m \in MonitorIds : Cancelled(m)
    \/ \E t \in Tasks : TaskCancelled(t)

SpecRestart == InitOrch /\ [][NextRestart]_vars

\* ------------------------------------------------------------------------
\* Claims about restarts
\* ------------------------------------------------------------------------
Active(t) == task_pc[t] \notin {"none", "done"}

\* The step ends task t or the stop_monitoring that awaited it.
Finishes(t) ==
    \/ Active(t) /\ task_pc'[t] = "done"
    \/ t \in stop_pc /\ t \notin stop_pc'

\* C31: at most one monitoring task is active; and a task that ends, or the
\* stop_monitoring that awaited it, sets no stop event of a monitor of another
\* task, removes no monitor of another task from the global list, and does not
\* close the MongoDB client while another task is active.
C31_SingleMonitoringTask ==
    /\ [](Cardinality({t \in Tasks : Active(t)}) <= 1)
    /\ [][\A t \in Tasks : Finishes(t) =>
             /\ \A m \in MonitorIds :
                   TaskOf(m) # t => /\ stop_event'[m] = stop_event[m]
                                    /\ m \in api_monitors => m \in api_monitors'
             /\ (\E u \in Tasks \ {t} : Active(u)) => mongo_client' = mongo_client]_vars

\* ------------------------------------------------------------------------
\* Claims about the loop of _clean_query
\* ------------------------------------------------------------------------

\* C32: the loop of _clean_query ends for every text: each iteration leaves a
\* shorter text, so that a text of n characters is through after at most
\* n / 2 iterations.
C32_CleanQueryTerminates ==
    /\ [](2 * sql_strips <= Len(strip(sql_raw)))
    /\ [][(sql_pc = "blocks" /\ sql_strips' = sql_strips + 1)
             => Len(sql_query') < Len(sql_query)]_vars

\* ------------------------------------------------------------------------
\* Claims about failures in a cycle of the tracker (checked under SpecTracker)
\* ------------------------------------------------------------------------
\* The step is a cycle of monitor m whose processlist query raised.
CycleFailed(m) ==
    /\ pc[m] = "query"
    /\ pc'[m] # "query"
    /\ last_query'[m] = "failed"

\* C33: a cycle whose processlist query raised leaves pid_time_cache and the
\* collection as they were and goes to the sleep with nothing to finalize;
\* until the next query returns no finalization of the monitor is in flight.
C33_FailedQueryChangesNothing ==
    /\ [](\A m \in MonitorIds : last_query[m] = "failed" => Finalizing(m) = {})
    /\ [][\A m \in MonitorIds :
             CycleFailed(m) =>
                 /\ pid_time_cache' = pid_time_cache
                 /\ collection' = collection
                 /\ finalized' = finalized
                 /\ emitted'[m] = emitted[m]
                 /\ pc'[m] = "sleep"
                 /\ Finalizing(m)' = {}]_vars

\* The query of a cycle raised while a pid was cached: the entry is still
\* there during the sleep.
C33_Witness ==
    /\ last_query[M1] = "failed"
    /\ pc[M1] = "sleep"
    /\ DOMAIN pid_time_cache[M1] # {}

\* The step resumes monitor m from an await of its finalization.
Resumed(m) ==
    /\ pc[m] \in {"find_one", "insert_one"}
    /\ pc'[m] # pc[m] \/ data_to_insert'[m] # data_to_insert[m]

\* C34: an entry leaves the cache only in the step that completes its own
\* pre-check or insert, and its document is stored then. A pre-check or an
\* insert that raised leaves the entry as it was, and the cycle goes on with
\* exactly the pids it still had to finalize. In a later cycle that runs and
\* in which a pid cached with such an entry is absent, the pid is finalized
\* again.
C34_FailedFinalizationRetried ==
    [][\A m \in MonitorIds : \A pid \in TrackerPids :
          /\ (pid \in DOMAIN pid_time_cache[m] /\ pid \notin DOMAIN pid_time_cache'[m]) =>
                 /\ pc[m] \in {"find_one", "insert_one"}
                 /\ data_to_insert[m].pid = pid
                 /\ KeyCount(collection', NaturalKey(data_to_insert[m])) >= 1
          /\ (Resumed(m) /\ data_to_insert[m].pid = pid /\ pc'[m] # "insert_one"
                  /\ pid \in DOMAIN pid_time_cache'[m]) =>
                 /\ pid_time_cache'[m][pid] = pid_time_cache[m][pid]
                 /\ Finalizing(m)' = todo[m]
          /\ (CycleRan(m) /\ expect'[m][pid] = -2) =>
                 /\ pid \in DOMAIN pid_time_cache'[m]
                 /\ pid \in Finalizing(m)']_vars

\* The insert of a pid raised after the server had stored the document; the
\* pid is absent again in a later cycle and its pre-check is in flight.
C34_Witness ==
    /\ pc[M1] = "find_one"
    /\ expect[M1][data_to_insert[M1].pid] = -2
    /\ KeyCount(collection, NaturalKey(data_to_insert[M1])) = 1

\* ------------------------------------------------------------------------
\* MongoDBConnector shared between a running monitor and the other units of
\* the process (API handlers, the batch collection)
\*
\* Clients are numbered in the order they are constructed. The monitor was
\* initialized with client 1: its self.collection belongs to that client.
\* ------------------------------------------------------------------------

\* MongoDBConnector.close(), called by another unit (the finally clause of
\* run_last_month_collection, of run_collection, of the digest handlers).
CloseByOther ==
    /\ client_id # 0
    /\ closed_clients' = closed_clients \cup {client_id}
    /\ client_id' = 0
    /\ UNCHANGED <<clients_made, bound_client, shared_pc, written_through>>
    /\ UNCHANGED exceptShared

\* MongoDBConnector._connect: a new client is constructed and pinged.
connect_new ==
    /\ clients_made' = clients_made + 1
    /\ client_id' = clients_made + 1

\* MongoDBConnector.initialize() or get_database() of another unit that finds
\* no client.
ConnectByOther ==
    /\ client_id = 0
    /\ clients_made < MaxClients
    /\ connect_new
    /\ UNCHANGED <<closed_clients, bound_client, shared_pc, written_through>>
    /\ UNCHANGED exceptShared

\* handle_finished_queries up to the for loop, with a client: the test of
\* line 152 is false and self.collection stays what it is.
Rebind ==
    UNCHANGED <<client_id, clients_made, bound_client>>

\* handle_finished_queries up to its first find_one: without a client it
\* initializes the connector and binds self.collection to the new client.
CycleStart ==
    /\ shared_pc = "sleep"
    /\ IF client_id = 0
       THEN /\ clients_made < MaxClients
            /\ connect_new
            /\ bound_client' = clients_made + 1
       ELSE Rebind
    /\ shared_pc' = "write"
    /\ UNCHANGED <<closed_clients, written_through>>
    /\ UNCHANGED exceptShared

\* await self.collection.find_one(...) / insert_one(...): issued through the
\* handle the monitor holds; the loop goes on to the next pid or returns.
WriteIssued ==
    /\ shared_pc = "write"
    /\ written_through' = written_through \cup
          {[client |-> bound_client, closed |-> bound_client \in closed_clients,
            current |-> client_id]}
    /\ \E more \in BOOLEAN : shared_pc' = IF more THEN "write" ELSE "sleep"
    /\ UNCHANGED <<client_id, clients_made, closed_clients, bound_client>>
    /\ UNCHANGED exceptShared

InitShared ==
    /\ InitService
    /\ InitFetchIdle
    /\ InitSaveIdle
    /\ InitNormIdle
    /\ InitAggIdle
    /\ InitSqlIdle
    /\ InitWsIdle
    /\ InitStatIdle
    /\ InitExampleIdle
    /\ InitOverlapIdle
    /\ client_id = 1
    /\ clients_made = 1
    /\ closed_clients = {}
    /\ bound_client = 1
    /\ shared_pc = "sleep"
    /\ written_through = {}

NextShared ==
    \/ CloseByOther
    \/ ConnectByOther
    \/ CycleStart
    \/ WriteIssued

SpecShared == InitShared /\ [][NextShared]_vars

\* C35: every find_one and insert_one of the monitor is issued through a
\* collection of the client that is open at that moment, never through one of
\* a client that was closed.
C35_WritesThroughOpenClient ==
    \A w \in written_through : ~w.closed /\ w.client = w.current

\* ------------------------------------------------------------------------
\* Overlapping requests POST /sql/statistics/calculate/{year_month}: every
\* request is served by its own calculate_monthly_statistics coroutine; the
\* created_at of its rows is the number of the call.
\* ------------------------------------------------------------------------
CallIds == 1..MaxCalcs

NoCall == [pc |-> "none", year_month |-> "", results |-> {}]

CallStart(c, ym) ==
    /\ calls[c].pc = "none"
    /\ \A b \in CallIds : b < c => calls[b].pc # "none"
    /\ calls' = [calls EXCEPT ![c] = [pc |-> "aggregate", year_month |-> ym, results |-> {}]]
    /\ UNCHANGED statVars
    /\ UNCHANGED exceptOverlap

\* Lines 94-122 and the test of line 125.
CallAggregated(c) ==
    /\ calls[c].pc = "aggregate"
    /\ LET rows == MonthlyRows(source_collection, calls[c].year_month, c) IN
       calls' = [calls EXCEPT ![c].results = rows,
                              ![c].pc = IF rows # {} THEN "delete_many" ELSE "returned"]
    /\ UNCHANGED statVars
    /\ UNCHANGED exceptOverlap

\* Line 127.
CallDeleted(c) ==
    /\ calls[c].pc = "delete_many"
    /\ stats_collection' = delete_many(stats_collection, calls[c].year_month)
    /\ calls' = [calls EXCEPT ![c].pc = "insert_many"]
    /\ UNCHANGED <<source_collection, calc_pc, year_month, calc_results, calc_run>>
    /\ UNCHANGED exceptOverlap

\* Lines 128-133.
CallInserted(c) ==
    /\ calls[c].pc = "insert_many"
    /\ stats_collection' = insert_many(stats_collection, calls[c].results)
    /\ calls' = [calls EXCEPT ![c].pc = "returned"]
    /\ UNCHANGED <<source_collection, calc_pc, year_month, calc_results, calc_run>>
    /\ UNCHANGED exceptOverlap

\* Lines 135-137.
CallFailed(c) ==
    /\ calls[c].pc \in {"aggregate", "delete_many", "insert_many"}
    /\ calls' = [calls EXCEPT ![c].pc = "raised"]
    /\ UNCHANGED statVars
    /\ UNCHANGED exceptOverlap

InitOverlap ==
    /\ InitService
    /\ InitFetchIdle
    /\ InitSaveIdle
    /\ InitNormIdle
    /\ InitAggIdle
    /\ InitSqlIdle
    /\ InitWsIdle
    /\ InitExampleIdle
    /\ InitSharedIdle
    /\ source_collection \in SUBSET SourceDocuments
    /\ stats_collection = {}
    /\ calc_pc = "idle"
    /\ year_month = ""
    /\ calc_results = {}
    /\ calc_run = 0
    /\ calls = [c \in CallIds |-> NoCall]

NextOverlap ==
    \/ \E c \in CallIds, ym \in Months : CallStart(c, ym)
    \/ \E c \in CallIds : CallAggregated(c)
    \/ \E c \in CallIds : CallDeleted(c)
    \/ \E c \in CallIds : CallInserted(c)
    \/ \E c \in CallIds : CallFailed(c)

SpecOverlap == InitOverlap /\ [][NextOverlap]_vars

\* C36: when no call is under way, the statistics collection holds at most
\* one row per (instance_id, month).
C36_OneRowPerInstanceMonth ==
    (\A c \in CallIds : calls[c].pc \in {"none", "returned", "raised"}) =>
        \A r1, r2 \in stats_collection :
            (r1.instance_id = r2.instance_id /\ r1.month = r2.month) => r1 = r2

\* ------------------------------------------------------------------------
\* _broadcast against connect and disconnect of the same collection_id.
\* ------------------------------------------------------------------------

\* C37: whatever connect and disconnect did while a send was awaited, the
\* broadcast ends with its dead connections out of the registry and the
\* caller goes on as after a return of update_status / broadcast_log. (A
\* step in which a send_json of the broadcast is over leaves ws_state alone
\* and changes bc; it ends the broadcast unless it goes on with the next
\* connection.)
C37_BroadcastSurvivesInterleaving ==
    [][LET SendReturns == bc.sending # 0 /\ ws_state' = ws_state /\ bc' # bc
           NextConnection == bc'.sending # 0 /\ bc'.phase = bc.phase /\ run_pc' = run_pc
       IN  (SendReturns /\ ~NextConnection) =>
              /\ bc.dead \cap connections' = {}
              /\ run_pc' \in {run_pc, NormalNext(run_pc)}]_vars

\* ------------------------------------------------------------------------
\* The four predicates against each other (checked under SpecStats)
\* ------------------------------------------------------------------------
\* C38: no keyword of one class begins with a keyword of another, so no text
\* starts with keywords of two classes; every digest text of the source
\* collection is in at most one class, and in every monthly row the four
\* class counts together do not exceed the number of digest documents
\* counted.
C38_ClassesExclusive ==
    /\ \A c1, c2 \in KeywordClasses : \A k1 \in c1[2], k2 \in c2[2] :
           startswith(k1, k2) => c1 = c2
    /\ \A d \in source_collection :
           Cardinality(ClassesOf(d.digest_query, clean_query(d.digest_query))) <= 1
    /\ \A r \in stats_collection \cup calc_results :
           r.read_query_count + r.write_query_count + r.ddl_query_count
               + r.commit_query_count <= r.total_slow_query_count

\* The January row of db1 is stored: one read and one transaction statement
\* out of two digest documents.
C38_Witness ==
    \E r \in stats_collection :
        /\ r.total_slow_query_count = 2
        /\ r.read_query_count = 1
        /\ r.commit_query_count = 1

\* ------------------------------------------------------------------------
\* One aggregate for every date of the range (checked under SpecRange)
\* ------------------------------------------------------------------------
\* C39: _save_metrics is called once per date the loop has entered, each time
\* with the aggregate of the whole window; the documents written for two
\* dates under the same instance_id and digest_query differ in date and
\* created_at only.
C39_SameAggregateEveryDate ==
    /\ save_run \in {current_date - 1, current_date}
    /\ range_pc = "save" => save_run = current_date
    /\ range_pc \in {"loop", "returned"} => save_run = current_date - 1
    /\ \A f1, f2 \in acked :
          (f1.instance_id = f2.instance_id /\ f1.digest_query = f2.digest_query) =>
             \A d1 \in Matches(digest_collection, f1), d2 \in Matches(digest_collection, f2) :
                 /\ [d1 EXCEPT !.date = 0, !.created_at = 0]
                       = [d2 EXCEPT !.date = 0, !.created_at = 0]
                 /\ d1.date # d2.date => d1.created_at # d2.created_at

\* The collection returned after both dates; the first document of the
\* aggregate was written for date 1 and for date 2.
C39_Witness ==
    /\ range_pc = "returned"
    /\ save_run = total_days
    /\ \A date \in 1..total_days :
          /\ KeyOf(date, Work[1]) \in acked
          /\ Matches(digest_collection, KeyOf(date, Work[1]))
                = {Document(date, Work[1][1], Work[1][2], date)}

============================================================================
